---------------------------- MODULE Spec2Model ----------------------------
(***************************************************************************)
(* Engagement analytics of the acknowledgement tracker (src/app.py).       *)
(*                                                                         *)
(* generate_user_analytics(events) is modelled as a state machine: the     *)
(* scan of build_user_stats takes one step per event, followed by the      *)
(* drain of the pairing queues, profile_users and the report.              *)
(*                                                                         *)
(* Representation of Python values:                                        *)
(*   - an optional value is None (the empty tuple) or Some(v) == <<v>>;    *)
(*   - a user name is the sequence of its characters, so that strip()      *)
(*     can be computed; the literal "anonymous" is the one-token sequence  *)
(*     <<"anonymous">>;                                                    *)
(*   - a timestamp string is a record [text, sec, zone]: text = "iso" for  *)
(*     an ISO-8601 date-time that lies sec seconds after the reference     *)
(*     instant T0 and is followed by the zone designator zone ("" for      *)
(*     none), text = "junk" for any other non-empty text and text = ""     *)
(*     for the empty string;                                               *)
(*   - a datetime is a record [ts, aware]: seconds after T0 and whether    *)
(*     it carries a tzinfo;                                                *)
(*   - a dict is the sequence of its entries in insertion order;           *)
(*   - a float is kept exactly, as an integer number of the units its      *)
(*     rounding keeps: scores in 1/10000, rates in 1/10 percent, minutes   *)
(*     in 1/10 minute, risk scores in 1/1000.                              *)
(***************************************************************************)
EXTENDS Integers, Sequences, FiniteSets, TLC

\* Longest event log drawn as input.
MaxEvents == 3
\* Timestamps of the input lie 0..MaxTime ticks after T0.
MaxTime == 2
\* Seconds per tick of the input timestamps (two hours).
Tick == 7200
\* Most users of a log drawn as a fleet of users.
MaxUsers == 4
\* Most announcements the store takes.
MaxStored == 2
\* Most events the HTTP handlers log.
MaxLogged == 2

VARIABLES
    events,               \* the argument of generate_user_analytics
    KMeans,               \* whether the optional sklearn import succeeded
    pc,                   \* position of the call
    i,                    \* index of the next event of the scan
    user_stats,           \* build_user_stats: user -> stats
    open_events,          \* build_user_stats: (announcementId, user) -> deque
    outstanding_by_user,  \* build_user_stats: user -> outstanding sessions
    profiles,             \* profile_users: user -> profile
    clustering,           \* profile_users: how the clustering branch ended
    predicted,            \* profile_users: labels, once clustering completed
    analytics,            \* the report under construction
    announcements,        \* the in-memory announcements store
    next_announcement_id, \* the id the next announcement gets
    event_log,            \* the events append_event has written, in order
    alerts,               \* the calls of send_sms_alert, in order
    request,              \* the HTTP request handled last
    response,             \* the answer to it
    calls,                \* the other calls of generate_user_analytics
    creating              \* the POST /announcement handlers under way

\* The state of the HTTP handlers.
http == <<announcements, next_announcement_id, event_log, alerts, request,
          response>>

\* The state of the threads that are not the one running.
threads == <<calls, creating>>

vars == <<events, KMeans, pc, i, user_stats, open_events,
          outstanding_by_user, profiles, clustering, predicted, analytics,
          announcements, next_announcement_id, event_log, alerts, request,
          response, calls, creating>>

---------------------------------------------------------------------------
\* Optional values.
None == <<>>
Some(v) == <<v>>

\* The string "anonymous".
Anonymous == <<"anonymous">>

\* A timestamp string: an ISO-8601 date-time, sec seconds after T0, with
\* zone designator zone.
IsoString(sec, zone) == [text |-> "iso", sec |-> sec, zone |-> zone]
\* A non-empty string that is no ISO-8601 date-time.
JunkString == [text |-> "junk", sec |-> 0, zone |-> ""]
\* The empty string, as a timestamp.
EmptyString == [text |-> "", sec |-> 0, zone |-> ""]

\* All sequences over S of length at most n.
BoundedSeq(S, n) == UNION {[1..k -> S] : k \in 0..n}

\* Sum and length helpers over sequences of integers.
RECURSIVE SumSeq(_)
SumSeq(s) == IF s = <<>> THEN 0 ELSE Head(s) + SumSeq(Tail(s))

Min(a, b) == IF a <= b THEN a ELSE b
Max(a, b) == IF a >= b THEN a ELSE b

\* round(): n/d (d > 0) rounded to the nearest integer, ties to even.
Round(n, d) ==
    LET q == n \div d
        r == n % d
    IN  IF 2 * r < d THEN q
        ELSE IF 2 * r > d THEN q + 1
        ELSE IF q % 2 = 0 THEN q ELSE q + 1

---------------------------------------------------------------------------
\* str.strip() on a sequence of characters.
RECURSIVE LStrip(_)
LStrip(s) == IF s # <<>> /\ Head(s) = " " THEN LStrip(Tail(s)) ELSE s

RECURSIVE RStrip(_)
RStrip(s) ==
    IF s # <<>> /\ s[Len(s)] = " " THEN RStrip(SubSeq(s, 1, Len(s) - 1)) ELSE s

Strip(s) == RStrip(LStrip(s))

\* normalize_user(value): (value or "").strip() or "anonymous".
normalize_user(value) ==
    LET user == Strip(IF value = None THEN <<>> ELSE value[1])
    IN  IF user = <<>> THEN Anonymous ELSE user

\* Seconds east of UTC of a zone designator datetime.fromisoformat accepts.
UtcOffset(zone) == CASE zone = "+00:00" -> 0
                     [] zone = "+02:00" -> 7200
                     [] OTHER -> 0

\* datetime.fromisoformat(value): Some(datetime), or None for ValueError.
\* A trailing "Z" is not accepted by it; a date-time without designator
\* gives a naive datetime, one with an offset an aware datetime whose
\* instant is the wall-clock time minus the offset.
fromisoformat(value) ==
    IF value.text = "iso" /\ value.zone \in {"", "+00:00", "+02:00"}
    THEN Some([ts |-> value.sec - UtcOffset(value.zone),
               aware |-> value.zone # ""])
    ELSE None

\* parse_iso_timestamp(value) for an optional timestamp string.
parse_iso_timestamp(value) ==
    IF value = None \/ value[1].text = "" THEN None
    ELSE LET v == IF value[1].zone = "Z"
                  THEN [value[1] EXCEPT !.zone = "+00:00"]
                  ELSE value[1]
         IN  fromisoformat(v)

\* Ordering two datetimes raises TypeError when exactly one is aware.
Comparable(a, b) == a.aware = b.aware

---------------------------------------------------------------------------
\* Dicts as sequences of entries in insertion order.
RECURSIVE IndexOfKey(_, _, _)
IndexOfKey(d, k, n) ==
    IF n > Len(d) THEN 0
    ELSE IF d[n].key = k THEN n ELSE IndexOfKey(d, k, n + 1)

\* Position of key k in dict d, 0 when absent.
Find(d, k) == IndexOfKey(d, k, 1)

HasKey(d, k) == Find(d, k) # 0

\* d.setdefault(k, v) / defaultdict access: the dict with k present.
SetDefault(d, k, v) ==
    IF HasKey(d, k) THEN d ELSE Append(d, [key |-> k, val |-> v])

\* d[k] for a present key.
Get(d, k) == d[Find(d, k)].val

\* d[k] = v for a present key.
Put(d, k, v) == [d EXCEPT ![Find(d, k)].val = v]

\* d.get(k, default).
GetOr(d, k, default) == IF HasKey(d, k) THEN Get(d, k) ELSE default

\* The stats record setdefault creates for a new user.
NewStats == [open_count |-> 0, ack_count |-> 0, ack_delays |-> <<>>,
             last_event_ts |-> None, targets |-> {}]

---------------------------------------------------------------------------
\* build_user_stats, one iteration of `for event in events`.

\* target = event.get("target") or "".
TargetOf(event) == IF event.target = None THEN "" ELSE event.target[1]

\* Mutant of PairingKey: the announcement id left out of the key.
KeyByUserOnly(announcement_id, user) == <<None, user>>

\* Mutant of PairingKey: the user left out of the key.
KeyByIdOnly(announcement_id, user) == <<announcement_id, Anonymous>>

\* key = (announcement_id, user).
PairingKey(announcement_id, user) == <<announcement_id, user>>

\* Whether `timestamp > stats["last_event_ts"]` is evaluated and raises.
LastSeenRaises(stats, timestamp) ==
    /\ timestamp # None
    /\ stats.last_event_ts # None
    /\ ~Comparable(timestamp[1], stats.last_event_ts[1])

\* The updates made before the branch on the event type: last_event_ts
\* and targets.
TrackCommon(stats, timestamp, target) ==
    [stats EXCEPT
        !.last_event_ts =
            IF timestamp # None /\ (@ = None \/ timestamp[1].ts > @[1].ts)
            THEN timestamp ELSE @,
        !.targets = IF target # "" THEN @ \cup {target} ELSE @]

\* Mutant of popleft: pop(), which takes the newest entry.
PopRight(queue) ==
    [item |-> queue[Len(queue)], rest |-> SubSeq(queue, 1, Len(queue) - 1)]

\* deque.popleft(): the element removed and the deque left.
popleft(queue) == [item |-> Head(queue), rest |-> Tail(queue)]

\* The "opened" branch on the stats: stats["open_count"] += 1.
OnOpened(stats) == [stats EXCEPT !.open_count = @ + 1]

\* Mutant of EnqueueOpen: an open without a parsable timestamp is queued
\* too, as of T0.
EnqueueOpenUnstamped(queues, key, timestamp, target, announcement_id) ==
    LET q == SetDefault(queues, key, <<>>)
        opened_at == IF timestamp # None THEN timestamp[1]
                     ELSE [ts |-> 0, aware |-> TRUE]
    IN  Put(q, key, Append(Get(q, key),
            [timestamp |-> opened_at, target |-> target,
             announcementId |-> announcement_id]))

\* The "opened" branch on the queues: with a timestamp, the open is
\* appended to open_events[key] (created when missing).
EnqueueOpen(queues, key, timestamp, target, announcement_id) ==
    IF timestamp # None
    THEN LET q == SetDefault(queues, key, <<>>)
         IN  Put(q, key, Append(Get(q, key),
                 [timestamp |-> timestamp[1], target |-> target,
                  announcementId |-> announcement_id]))
    ELSE queues

\* Mutant of PairAck: the oldest entry is compared first and popped only
\* when the acknowledgement is not earlier.
PairAckComparesFirst(queues, key, timestamp) ==
    IF timestamp = None
    THEN [queues |-> queues, delay |-> None, raised |-> FALSE]
    ELSE LET q == SetDefault(queues, key, <<>>)
         IN  IF Get(q, key) = <<>>
             THEN [queues |-> q, delay |-> None, raised |-> FALSE]
             ELSE LET opened_ts == Head(Get(q, key)).timestamp
                  IN  IF ~Comparable(timestamp[1], opened_ts)
                      THEN [queues |-> q, delay |-> None, raised |-> TRUE]
                      ELSE IF timestamp[1].ts >= opened_ts.ts
                      THEN [queues |-> Put(q, key, Tail(Get(q, key))),
                            delay |-> Some(timestamp[1].ts - opened_ts.ts),
                            raised |-> FALSE]
                      ELSE [queues |-> q, delay |-> None, raised |-> FALSE]

\* Mutant of PairAck: an entry popped by an earlier acknowledgement is put
\* back at the end of its queue.
PairAckRequeues(queues, key, timestamp) ==
    IF timestamp = None
    THEN [queues |-> queues, delay |-> None, raised |-> FALSE]
    ELSE LET q == SetDefault(queues, key, <<>>)
         IN  IF Get(q, key) = <<>>
             THEN [queues |-> q, delay |-> None, raised |-> FALSE]
             ELSE LET opened_event == Head(Get(q, key))
                      opened_ts == opened_event.timestamp
                      left == Put(q, key, Tail(Get(q, key)))
                  IN  IF ~Comparable(timestamp[1], opened_ts)
                      THEN [queues |-> left, delay |-> None, raised |-> TRUE]
                      ELSE IF timestamp[1].ts >= opened_ts.ts
                      THEN [queues |-> left,
                            delay |-> Some(timestamp[1].ts - opened_ts.ts),
                            raised |-> FALSE]
                      ELSE [queues |-> Put(q, key, Append(Tail(Get(q, key)),
                                                          opened_event)),
                            delay |-> None, raised |-> FALSE]

\* Mutant of PairAck: the delay is recorded whatever the order of the two
\* timestamps.
PairAckUnordered(queues, key, timestamp) ==
    IF timestamp = None
    THEN [queues |-> queues, delay |-> None, raised |-> FALSE]
    ELSE LET q == SetDefault(queues, key, <<>>)
         IN  IF Get(q, key) = <<>>
             THEN [queues |-> q, delay |-> None, raised |-> FALSE]
             ELSE LET popped == popleft(Get(q, key))
                      opened_ts == popped.item.timestamp
                      left == Put(q, key, popped.rest)
                  IN  IF ~Comparable(timestamp[1], opened_ts)
                      THEN [queues |-> left, delay |-> None, raised |-> TRUE]
                      ELSE [queues |-> left,
                            delay |-> Some(timestamp[1].ts - opened_ts.ts),
                            raised |-> FALSE]

\* The "acknowledged" branch on the queues and the delay: with a timestamp,
\* open_events[key] is looked up (and created when missing); when it is
\* non-empty its oldest entry is popped, and then compared.
\* [queues, delay (optional seconds), raised].
PairAck(queues, key, timestamp) ==
    IF timestamp = None
    THEN [queues |-> queues, delay |-> None, raised |-> FALSE]
    ELSE LET q == SetDefault(queues, key, <<>>)
         IN  IF Get(q, key) = <<>>
             THEN [queues |-> q, delay |-> None, raised |-> FALSE]
             ELSE LET popped == popleft(Get(q, key))
                      opened_ts == popped.item.timestamp
                      left == Put(q, key, popped.rest)
                  IN  IF ~Comparable(timestamp[1], opened_ts)
                      THEN [queues |-> left, delay |-> None, raised |-> TRUE]
                      ELSE IF timestamp[1].ts >= opened_ts.ts
                      THEN [queues |-> left,
                            delay |-> Some(timestamp[1].ts - opened_ts.ts),
                            raised |-> FALSE]
                      ELSE [queues |-> left, delay |-> None, raised |-> FALSE]

\* Mutant of OnAcknowledged: only a paired acknowledgement is counted.
OnAcknowledgedIfPaired(stats, delay) ==
    IF delay # None
    THEN [stats EXCEPT !.ack_count = @ + 1, !.ack_delays = Append(@, delay[1])]
    ELSE stats

\* The "acknowledged" branch on the stats: stats["ack_count"] += 1 and the
\* delay of a pairing appended to ack_delays.
OnAcknowledged(stats, delay) ==
    [stats EXCEPT !.ack_count = @ + 1,
                  !.ack_delays = IF delay # None THEN Append(@, delay[1]) ELSE @]

\* Mutant of ScanStep: an event of another kind is skipped before the stats
\* record of its user is looked up.
ScanStepSkippingOthers(event, stats_by_user, queues) ==
    LET event_type == event.event
        announcement_id == event.announcementId
        user == normalize_user(event.user)
        timestamp == parse_iso_timestamp(event.timestamp)
        target == TargetOf(event)
        us == SetDefault(stats_by_user, user, NewStats)
        stats == Get(us, user)
        key == PairingKey(announcement_id, user)
    IN  IF event_type \notin {"opened", "acknowledged"}
        THEN [raised |-> FALSE, user_stats |-> stats_by_user,
              open_events |-> queues]
        ELSE IF LastSeenRaises(stats, timestamp)
        THEN [raised |-> TRUE, user_stats |-> us, open_events |-> queues]
        ELSE LET common == TrackCommon(stats, timestamp, target)
             IN  IF event_type = "opened"
                 THEN [raised |-> FALSE,
                       user_stats |-> Put(us, user, OnOpened(common)),
                       open_events |-> EnqueueOpen(queues, key, timestamp,
                                                   target, announcement_id)]
                 ELSE LET paired == PairAck(queues, key, timestamp)
                      IN  [raised |-> paired.raised,
                           user_stats |->
                               Put(us, user, OnAcknowledged(common, paired.delay)),
                           open_events |-> paired.queues]

\* One iteration of the loop on `event`: [raised, user_stats, open_events].
ScanStep(event, stats_by_user, queues) ==
    LET event_type == event.event
        announcement_id == event.announcementId
        user == normalize_user(event.user)
        timestamp == parse_iso_timestamp(event.timestamp)
        target == TargetOf(event)
        us == SetDefault(stats_by_user, user, NewStats)
        stats == Get(us, user)
        key == PairingKey(announcement_id, user)
    IN  IF LastSeenRaises(stats, timestamp)
        THEN [raised |-> TRUE, user_stats |-> us, open_events |-> queues]
        ELSE LET common == TrackCommon(stats, timestamp, target)
             IN  IF event_type = "opened"
                 THEN [raised |-> FALSE,
                       user_stats |-> Put(us, user, OnOpened(common)),
                       open_events |-> EnqueueOpen(queues, key, timestamp,
                                                   target, announcement_id)]
                 ELSE IF event_type = "acknowledged"
                 THEN LET paired == PairAck(queues, key, timestamp)
                      IN  [raised |-> paired.raised,
                           user_stats |->
                               Put(us, user, OnAcknowledged(common, paired.delay)),
                           open_events |-> paired.queues]
                 ELSE [raised |-> FALSE,
                       user_stats |-> Put(us, user, common),
                       open_events |-> queues]

\* The drain after the loop: every entry left in a queue, key by key in
\* the order the keys were created, is appended to its user's list.
RECURSIVE DrainQueue(_, _, _)
DrainQueue(queue, key, out) ==
    IF queue = <<>> THEN out
    ELSE LET opened_event == popleft(queue).item
             o == SetDefault(out, key[2], <<>>)
         IN  DrainQueue(popleft(queue).rest, key,
                 Put(o, key[2], Append(Get(o, key[2]),
                     [announcementId |-> key[1],
                      opened_at |-> opened_event.timestamp,
                      target |-> opened_event.target])))

\* Mutant of DrainAll: the list of a key's user is created before the loop
\* on the key's queue.
RECURSIVE DrainAllTouching(_, _, _)
DrainAllTouching(queues, n, out) ==
    IF n > Len(queues) THEN out
    ELSE DrainAllTouching(queues, n + 1,
             DrainQueue(queues[n].val, queues[n].key,
                        SetDefault(out, queues[n].key[2], <<>>)))

RECURSIVE DrainAll(_, _, _)
DrainAll(queues, n, out) ==
    IF n > Len(queues) THEN out
    ELSE DrainAll(queues, n + 1, DrainQueue(queues[n].val, queues[n].key, out))


---------------------------------------------------------------------------
\* calculate_engagement_score and profile_users.

\* ack_rate = acks / opens if opens else 0.0, as the fraction n/d.
AckRate(opens, acks) ==
    IF opens # 0 THEN [n |-> acks, d |-> opens] ELSE [n |-> 0, d |-> 1]

\* mean(delays) in seconds as the fraction n/d, for a non-empty list.
MeanDelay(delays) == [n |-> SumSeq(delays), d |-> Len(delays)]

\* The average delay the score uses, in seconds: mean(delays), or 12.0 hours
\* when there is none.
ScoreDelay(delays) ==
    IF delays # <<>> THEN MeanDelay(delays) ELSE [n |-> 12 * 3600, d |-> 1]

\* delay_score = max(0.0, min(1.0, 1 - avg_delay_hours / 24)) as the
\* fraction n/d of a day: (86400 d - n) / (86400 d), clamped.
DelayScore(avg) ==
    [n |-> Max(0, Min(86400 * avg.d, 86400 * avg.d - avg.n)), d |-> 86400 * avg.d]

\* activity = min(opens + acks, 20) / 20, in twentieths.
Activity(opens, acks) == Min(opens + acks, 20)

\* calculate_engagement_score(stats), in 1/10000:
\* round(0.6 ack_rate + 0.25 delay_score + 0.15 activity, 4). The three
\* terms are 6000 r.n/r.d, 2500 s.n/s.d = 25 s.n / (864 avg.d) and
\* 1500 activity/20 = 75 activity.
calculate_engagement_score(stats) ==
    LET opens == stats.open_count
        acks == stats.ack_count
        r == AckRate(opens, acks)
        avg == ScoreDelay(stats.ack_delays)
        s == DelayScore(avg)
        den == r.d * 864 * avg.d
    IN  Round(6000 * r.n * 864 * avg.d + 25 * s.n * r.d
                + 75 * Activity(opens, acks) * den, den)

\* round(ack_rate * 100, 1), in 1/10 percent.
AckRatePercent(opens, acks) ==
    LET r == AckRate(opens, acks) IN Round(1000 * r.n, r.d)

\* round(mean(delays) / 60, 1) in 1/10 minute, None without delays.
AvgDelayMinutes(delays) ==
    IF delays # <<>>
    THEN Some(Round(10 * MeanDelay(delays).n, 60 * MeanDelay(delays).d))
    ELSE None

\* The profile of one user, before classification.
ProfileOf(user, stats, outstanding) ==
    [opens |-> stats.open_count,
     acks |-> stats.ack_count,
     ack_rate |-> AckRatePercent(stats.open_count, stats.ack_count),
     avg_delay_minutes |-> AvgDelayMinutes(stats.ack_delays),
     score |-> calculate_engagement_score(stats),
     classification |-> "",
     outstanding |-> Len(GetOr(outstanding, user, <<>>))]

\* profiles, in the order of user_stats.
UnclassifiedProfiles(stats_by_user, outstanding) ==
    [n \in 1..Len(stats_by_user) |->
        [key |-> stats_by_user[n].key,
         val |-> ProfileOf(stats_by_user[n].key, stats_by_user[n].val,
                           outstanding)]]

\* Mutant of HeuristicClass: the last tier is not assigned.
HeuristicClassTwoTiers(profile) ==
    IF profile.score >= 7000 /\ profile.ack_rate >= 650 THEN "Highly Engaged"
    ELSE IF profile.score >= 4500 THEN "Steady"
    ELSE profile.classification

\* The heuristic rule on one profile.
HeuristicClass(profile) ==
    IF profile.score >= 7000 /\ profile.ack_rate >= 650 THEN "Highly Engaged"
    ELSE IF profile.score >= 4500 THEN "Steady"
    ELSE "Needs Attention"

\* Mutant of ClassifyHeuristic: a profile that already has a label keeps it.
ClassifyHeuristicUnlabelled(profs) ==
    [n \in 1..Len(profs) |->
        IF profs[n].val.classification # "" THEN profs[n]
        ELSE [profs[n] EXCEPT !.val.classification = HeuristicClass(profs[n].val)]]

\* The heuristic engine on all profiles.
ClassifyHeuristic(profs) ==
    [n \in 1..Len(profs) |->
        [profs[n] EXCEPT !.val.classification = HeuristicClass(profs[n].val)]]

\* sorted(seq, key=..., reverse=True): a stable sort by descending key.
\* The elements are [rank, item], rank being the key as a fraction n/d.
GreaterRank(a, b) == a.rank.n * b.rank.d > b.rank.n * a.rank.d

RECURSIVE InsertSorted(_, _)
InsertSorted(sorted, x) ==
    IF sorted = <<>> THEN <<x>>
    ELSE IF GreaterRank(x, Head(sorted)) THEN <<x>> \o sorted
    ELSE <<Head(sorted)>> \o InsertSorted(Tail(sorted), x)

RECURSIVE SortRanked(_)
SortRanked(seq) ==
    IF seq = <<>> THEN <<>>
    ELSE InsertSorted(SortRanked(SubSeq(seq, 1, Len(seq) - 1)), seq[Len(seq)])

SortedDesc(ranked) ==
    LET sorted == SortRanked(ranked)
    IN  [n \in 1..Len(sorted) |-> sorted[n].item]

\* seq[:3].
FirstThree(seq) == SubSeq(seq, 1, Min(3, Len(seq)))

\* The labels KMeans.fit_predict may give n users: any assignment of the
\* clusters 0..2. Which one it is depends on the feature vectors through
\* the library and is left open.
Labelings(n) == [1..n -> 0..2]

\* cluster_scores / cluster_counts: label -> [sum, count], a dict in the
\* order the labels first occur.
RECURSIVE ClusterTotals(_, _, _, _)
ClusterTotals(profs, labels, n, acc) ==
    IF n > Len(profs) THEN acc
    ELSE LET a == SetDefault(acc, labels[n], [sum |-> 0, count |-> 0])
             old == Get(a, labels[n])
         IN  ClusterTotals(profs, labels, n + 1,
                 Put(a, labels[n], [sum |-> old.sum + profs[n].val.score,
                                    count |-> old.count + 1]))

\* Mutant of RankedByAverage: each label ranked by the sum of its scores.
RankedBySum(totals) ==
    [n \in 1..Len(totals) |->
        [rank |-> [n |-> totals[n].val.sum, d |-> 1], item |-> totals[n].key]]

\* averaged_scores as sort keys: each label ranked by sum / count.
RankedByAverage(totals) ==
    [n \in 1..Len(totals) |->
        [rank |-> [n |-> totals[n].val.sum, d |-> totals[n].val.count],
         item |-> totals[n].key]]

SegmentNames == <<"Highly Engaged", "Steady", "Needs Attention">>

\* The clustering engine on all profiles, for the labels fit_predict gave.
ClassifyClusters(profs, labels) ==
    LET totals == ClusterTotals(profs, labels, 1, <<>>)
        ordered_labels == SortedDesc(RankedByAverage(totals))
        rank(label) == CHOOSE k \in 1..Len(ordered_labels) :
                           ordered_labels[k] = label
        mapping(label) == IF rank(label) <= 3 THEN SegmentNames[rank(label)]
                          ELSE SegmentNames[3]
    IN  [n \in 1..Len(profs) |->
            [profs[n] EXCEPT !.val.classification = mapping(labels[n])]]

\* The profiles when the try block raises after the loop of lines 307-309
\* gave the first `assigned` users the name of their cluster.
PartlyClustered(profs, labels, assigned) ==
    LET clustered == ClassifyClusters(profs, labels)
    IN  [n \in 1..Len(profs) |->
            IF n <= assigned THEN clustered[n] ELSE profs[n]]

---------------------------------------------------------------------------
\* generate_user_analytics.

\* The report as created on entry.
NewAnalytics(evs) ==
    [overall |-> [total_events |-> Len(evs), total_users |-> 0,
                  conversion_rate |-> 0, avg_ack_minutes |-> None],
     leaders |-> <<>>, risks |-> <<>>, insights |-> <<>>,
     engine |-> "heuristic"]

\* The insight strings.
NoEventsInsight == [text |-> "No engagement events recorded yet", count |-> 0, users |-> 0]
PendingInsight(count, users) ==
    [text |-> "pending acknowledgement(s)", count |-> count, users |-> users]
LowConversionInsight == [text |-> "Overall conversion rate is under 60%", count |-> 0, users |-> 0]
SlowAckInsight == [text |-> "Average acknowledgement time exceeds 3 hours", count |-> 0, users |-> 0]
HealthyInsight == [text |-> "Engagement metrics look healthy", count |-> 0, users |-> 0]

RECURSIVE TotalOpens(_)
\* sum(stats.get("open_count", 0) for stats in user_stats.values()).
TotalOpens(d) == IF d = <<>> THEN 0 ELSE Head(d).val.open_count + TotalOpens(Tail(d))

RECURSIVE TotalAcks(_)
\* sum(stats.get("ack_count", 0) for stats in user_stats.values()).
TotalAcks(d) == IF d = <<>> THEN 0 ELSE Head(d).val.ack_count + TotalAcks(Tail(d))

RECURSIVE OutstandingCount(_)
\* sum(len(items) for items in outstanding.values()).
OutstandingCount(d) ==
    IF d = <<>> THEN 0 ELSE Len(Head(d).val) + OutstandingCount(Tail(d))

RECURSIVE AllDelays(_)
\* [delay for stats in user_stats.values() for delay in stats["ack_delays"]].
AllDelays(d) == IF d = <<>> THEN <<>> ELSE Head(d).val.ack_delays \o AllDelays(Tail(d))

\* Mutant of ConversionRate: the opens of the log divided by its
\* acknowledgements.
ConversionRateInverse(total_opens, total_acks) ==
    IF total_acks # 0 THEN Round(1000 * total_opens, total_acks) ELSE 0

\* round(total_acks / total_opens * 100, 1) in 1/10 percent, 0 without opens.
ConversionRate(total_opens, total_acks) ==
    IF total_opens # 0 THEN Round(1000 * total_acks, total_opens) ELSE 0

\* Mutant of DelayMinutesOr90: an unknown delay counts as twelve hours.
DelayMinutesOr720(avg_delay_minutes) ==
    IF avg_delay_minutes = None \/ avg_delay_minutes[1] = 0
    THEN 7200 ELSE avg_delay_minutes[1]

\* (profile["avg_delay_minutes"] or 90), in 1/10 minute: None and 0.0 are
\* both falsy.
DelayMinutesOr90(avg_delay_minutes) ==
    IF avg_delay_minutes = None \/ avg_delay_minutes[1] = 0
    THEN 900 ELSE avg_delay_minutes[1]

\* round((1 - ack_rate) + min(outstanding, 3) * 0.2
\*       + min(avg_delay_hours / 12, 1), 3) in 1/1000, with ack_rate in
\* 1/10 percent and the delay in 1/10 minute: the last term is
\* min(1000 m / 7200, 1000) = min(5 m, 36000) / 36.
RiskScore(ack_rate, outstanding_tasks, avg_delay_minutes) ==
    Round(36 * ((1000 - ack_rate) + 200 * Min(outstanding_tasks, 3))
            + Min(5 * DelayMinutesOr90(avg_delay_minutes), 36000), 36)

\* Mutant of IsRiskCandidate: every user is a candidate.
IsRiskCandidateAlways(profile) == TRUE

\* Whether a profile is a risk candidate: ack_rate < 0.6 or outstanding.
IsRiskCandidate(profile) == profile.ack_rate < 600 \/ profile.outstanding # 0

RiskEntry(user, profile) ==
    [user |-> user,
     ack_rate |-> profile.ack_rate,
     outstanding |-> profile.outstanding,
     avg_delay_minutes |-> profile.avg_delay_minutes,
     classification |-> profile.classification,
     risk_score |-> RiskScore(profile.ack_rate, profile.outstanding,
                              profile.avg_delay_minutes)]

RECURSIVE RiskCandidates(_)
RiskCandidates(profs) ==
    IF profs = <<>> THEN <<>>
    ELSE (IF IsRiskCandidate(Head(profs).val)
          THEN <<RiskEntry(Head(profs).key, Head(profs).val)>> ELSE <<>>)
         \o RiskCandidates(Tail(profs))

\* key=lambda item: item["risk_score"].
RankedByRisk(candidates) ==
    [n \in 1..Len(candidates) |->
        [rank |-> [n |-> candidates[n].risk_score, d |-> 1],
         item |-> candidates[n]]]

\* key=lambda item: item[1]["score"].
RankedByScore(profs) ==
    [n \in 1..Len(profs) |->
        [rank |-> [n |-> profs[n].val.score, d |-> 1], item |-> profs[n]]]

LeaderEntry(entry) ==
    [user |-> entry.key,
     score |-> entry.val.score,
     classification |-> entry.val.classification,
     ack_rate |-> entry.val.ack_rate,
     avg_delay_minutes |-> entry.val.avg_delay_minutes]

\* Mutant of Leaders: the first three profiles, unsorted.
LeadersUnsorted(profs) ==
    LET top == FirstThree(profs)
    IN  [n \in 1..Len(top) |-> LeaderEntry(top[n])]

Leaders(profs) ==
    LET top == FirstThree(SortedDesc(RankedByScore(profs)))
    IN  [n \in 1..Len(top) |-> LeaderEntry(top[n])]

\* Mutant of Insights: the healthy message closes every list.
InsightsAlwaysHealthy(outstanding, conversion_rate, avg_ack_minutes) ==
    LET outstanding_count == OutstandingCount(outstanding)
    IN  (IF outstanding_count # 0
         THEN <<PendingInsight(outstanding_count, Len(outstanding))>>
         ELSE <<>>)
        \o (IF conversion_rate < 600 THEN <<LowConversionInsight>> ELSE <<>>)
        \o (IF avg_ack_minutes # None /\ avg_ack_minutes[1] > 1800
            THEN <<SlowAckInsight>> ELSE <<>>)
        \o <<HealthyInsight>>

\* The insights of a non-empty log, in the order they are appended.
Insights(outstanding, conversion_rate, avg_ack_minutes) ==
    LET outstanding_count == OutstandingCount(outstanding)
        fired ==
            (IF outstanding_count # 0
             THEN <<PendingInsight(outstanding_count, Len(outstanding))>>
             ELSE <<>>)
            \o (IF conversion_rate < 600 THEN <<LowConversionInsight>> ELSE <<>>)
            \o (IF avg_ack_minutes # None /\ avg_ack_minutes[1] # 0
                   /\ avg_ack_minutes[1] > 1800
                THEN <<SlowAckInsight>> ELSE <<>>)
    IN  IF fired = <<>> THEN <<HealthyInsight>> ELSE fired

\* The report of a non-empty log from the results of the earlier stages.
Report(base, stats_by_user, outstanding, profs) ==
    LET total_opens == TotalOpens(stats_by_user)
        total_acks == TotalAcks(stats_by_user)
        conversion_rate == ConversionRate(total_opens, total_acks)
        avg_ack_minutes == AvgDelayMinutes(AllDelays(stats_by_user))
    IN  [base EXCEPT
            !.overall = [total_events |-> @.total_events,
                         total_users |-> Len(stats_by_user),
                         conversion_rate |-> conversion_rate,
                         avg_ack_minutes |-> avg_ack_minutes],
            !.leaders = Leaders(profs),
            !.risks = FirstThree(SortedDesc(RankedByRisk(RiskCandidates(profs)))),
            !.insights = Insights(outstanding, conversion_rate, avg_ack_minutes)]

---------------------------------------------------------------------------
\* The state machine of one call of generate_user_analytics(events).

\* Mutant of EmptyReport: the report returned without its insight.
EmptyReportSilent(base) == base

\* `if not events`: the report of an empty log.
EmptyReport(base) == [base EXCEPT !.insights = Append(@, NoEventsInsight)]

\* The queues after the drain: every deque popped empty.
Drained(queues) == [n \in 1..Len(queues) |-> [queues[n] EXCEPT !.val = <<>>]]

\* The early return for an empty log.
EmptyReturn ==
    /\ pc = "call"
    /\ events = <<>>
    /\ analytics' = EmptyReport(analytics)
    /\ pc' = "done"
    /\ UNCHANGED <<events, KMeans, i, user_stats, open_events,
                   outstanding_by_user, profiles, clustering, predicted>>
    /\ UNCHANGED http
    /\ UNCHANGED threads

\* build_user_stats: the loop body on events[i]. A TypeError leaves the
\* call, and with it generate_user_analytics, by an exception.
ScanEvent ==
    /\ pc \in {"call", "scan"}
    /\ i <= Len(events)
    /\ LET step == ScanStep(events[i], user_stats, open_events)
       IN  IF step.raised
           THEN /\ pc' = "raised"
                /\ UNCHANGED <<i, user_stats, open_events>>
           ELSE /\ pc' = "scan"
                /\ i' = i + 1
                /\ user_stats' = step.user_stats
                /\ open_events' = step.open_events
    /\ UNCHANGED <<events, KMeans, outstanding_by_user, profiles, clustering,
                   predicted, analytics>>
    /\ UNCHANGED http
    /\ UNCHANGED threads

\* build_user_stats: the drain of the queues after the loop, and the return.
DrainQueues ==
    /\ pc = "scan"
    /\ i > Len(events)
    /\ outstanding_by_user' = DrainAll(open_events, 1, <<>>)
    /\ open_events' = Drained(open_events)
    /\ pc' = "built"
    /\ UNCHANGED <<events, KMeans, i, user_stats, profiles, clustering,
                   predicted, analytics>>
    /\ UNCHANGED http
    /\ UNCHANGED threads

\* Mutant of ProfileUsers: clustering is tried from two users on.
ProfileUsersFromTwo ==
    /\ pc = "built"
    /\ LET profs == UnclassifiedProfiles(user_stats, outstanding_by_user)
       IN  IF KMeans /\ Len(profs) >= 2
           THEN \E labels \in Labelings(Len(profs)) :
                    /\ profiles' = ClassifyClusters(profs, labels)
                    /\ clustering' = "completed"
                    /\ predicted' = labels
                    /\ analytics' = [analytics EXCEPT !.engine = "sklearn-kmeans"]
           ELSE /\ profiles' = ClassifyHeuristic(profs)
                /\ clustering' = "untried"
                /\ predicted' = <<>>
                /\ analytics' = [analytics EXCEPT !.engine = "heuristic"]
    /\ pc' = "profiled"
    /\ UNCHANGED <<events, KMeans, i, user_stats, open_events,
                   outstanding_by_user>>
    /\ UNCHANGED http
    /\ UNCHANGED threads

\* profile_users, and analytics["engine"] = engine. With the clustering
\* facility and at least three users the try block runs: it completes, every
\* user labelled by cluster, or it raises somewhere, possibly after the
\* first `assigned` users got a cluster's name; the exception is caught and
\* the heuristic loop runs over all profiles.
ProfileUsers ==
    /\ pc = "built"
    /\ LET profs == UnclassifiedProfiles(user_stats, outstanding_by_user)
       IN  IF KMeans /\ Len(profs) >= 3
           THEN \E raises \in BOOLEAN, labels \in Labelings(Len(profs)),
                   assigned \in 0..Len(profs) :
                    IF raises
                    THEN /\ profiles' = ClassifyHeuristic(
                                 PartlyClustered(profs, labels, assigned))
                         /\ clustering' = "raised"
                         /\ predicted' = <<>>
                         /\ analytics' = [analytics EXCEPT !.engine = "heuristic"]
                    ELSE /\ profiles' = ClassifyClusters(profs, labels)
                         /\ clustering' = "completed"
                         /\ predicted' = labels
                         /\ analytics' = [analytics EXCEPT !.engine = "sklearn-kmeans"]
           ELSE /\ profiles' = ClassifyHeuristic(profs)
                /\ clustering' = "untried"
                /\ predicted' = <<>>
                /\ analytics' = [analytics EXCEPT !.engine = "heuristic"]
    /\ pc' = "profiled"
    /\ UNCHANGED <<events, KMeans, i, user_stats, open_events,
                   outstanding_by_user>>
    /\ UNCHANGED http
    /\ UNCHANGED threads

\* The rest of generate_user_analytics: totals, leaders, risks, insights.
BuildReport ==
    /\ pc = "profiled"
    /\ analytics' = Report(analytics, user_stats, outstanding_by_user, profiles)
    /\ pc' = "done"
    /\ UNCHANGED <<events, KMeans, i, user_stats, open_events,
                   outstanding_by_user, profiles, clustering, predicted>>
    /\ UNCHANGED http
    /\ UNCHANGED threads

Next == EmptyReturn \/ ScanEvent \/ DrainQueues \/ ProfileUsers \/ BuildReport

---------------------------------------------------------------------------
\* The HTTP handlers. One action handles one request from its arrival to
\* its response. A string of a request is the sequence of its tokens: "&"
\* and "%26" (the percent-encoding of "&"), the decimal digits, the names
\* "id=", "target=", "user=" and "username=" that open a parameter of a
\* query string, and opaque pieces of text. The timestamp, device and ip of
\* an event and the rendered page are left out. Of send_sms_alert the call
\* is recorded, with its arguments; whether a message leaves depends on the
\* Twilio settings of the environment.

Digits == <<"0", "1", "2", "3", "4", "5", "6", "7", "8", "9">>

\* str(n) for a natural number.
RECURSIVE Decimal(_)
Decimal(n) ==
    IF n < 10 THEN <<Digits[n + 1]>>
    ELSE Decimal(n \div 10) \o <<Digits[(n % 10) + 1]>>

\* The value of a decimal digit.
DigitValue(c) == (CHOOSE k \in 1..10 : Digits[k] = c) - 1

RECURSIVE DecimalValue(_)
DecimalValue(s) ==
    IF s = <<>> THEN 0
    ELSE 10 * DecimalValue(SubSeq(s, 1, Len(s) - 1)) + DigitValue(s[Len(s)])

\* int(s): Some(value) for a non-empty string of digits, None for the
\* ValueError of the empty string and of a string with another token (signs,
\* spaces and underscores, which int() accepts, are not among the tokens).
int(s) ==
    IF s # <<>> /\ \A n \in 1..Len(s) : \E k \in 1..10 : Digits[k] = s[n]
    THEN Some(DecimalValue(s))
    ELSE None

\* A query string split at its "&".
RECURSIVE SplitQuery(_, _)
SplitQuery(q, part) ==
    IF q = <<>> THEN <<part>>
    ELSE IF Head(q) = "&" THEN <<part>> \o SplitQuery(Tail(q), <<>>)
    ELSE SplitQuery(Tail(q), Append(part, Head(q)))

\* Percent-decoding of a value.
Unquote(s) == [n \in 1..Len(s) |-> IF s[n] = "%26" THEN "&" ELSE s[n]]

\* request.args.get(name): the decoded value of the first parameter of
\* that name, None without one.
RECURSIVE FirstNamed(_, _)
FirstNamed(parts, name) ==
    IF parts = <<>> THEN None
    ELSE IF Head(parts) # <<>> /\ Head(Head(parts)) = name
         THEN Some(Unquote(Tail(Head(parts))))
         ELSE FirstNamed(Tail(parts), name)

ArgsGet(q, name) == FirstNamed(SplitQuery(q, <<>>), name)

\* `x or y` for optional strings: None and "" are falsy.
Falsy(x) == x = None \/ x[1] = <<>>
OrElse(x, y) == IF Falsy(x) THEN y ELSE x

\* A URL: its path and its query string.
Url(path, query) == [path |-> path, query |-> query]
NoUrl == Url(<<>>, <<>>)

\* Requests and responses. A request has the query string of a GET, the
\* form of a POST /acknowledge and the JSON body of a POST /announcement.
NoForm == [announcementId |-> None, user |-> None, target |-> None]
NoJson == [title |-> None, details |-> None, target |-> None]
Request(route, query, form, json) ==
    [route |-> route, query |-> query, form |-> form, json |-> json]
NoRequest == Request("", <<>>, NoForm, NoJson)

Response(status, announcement, track, location) ==
    [status |-> status, announcement |-> announcement, track |-> track,
     location |-> location]
NoResponse == Response(0, None, NoUrl, NoUrl)
Status(code) == Response(code, None, NoUrl, NoUrl)

\* The HTTP handlers at the start of the process: the store is empty, the
\* next id is 1, nothing is logged and no request was handled.
HttpInit ==
    /\ announcements = <<>>
    /\ next_announcement_id = 1
    /\ event_log = <<>>
    /\ alerts = <<>>
    /\ request = NoRequest
    /\ response = NoResponse

\* The variables of a call of generate_user_analytics.
analysis == <<events, KMeans, pc, i, user_stats, open_events,
              outstanding_by_user, profiles, clustering, predicted,
              analytics>>

\* Mutant of append_event: the event is written before the others.
PrependEvent(log, event) == <<event>> \o log

\* append_event(event): one more line at the end of the events file.
append_event(log, event) == Append(log, event)

\* The announcement of an id: the first stored one that has it, None
\* without one or without an id.
FindAnnouncement(announcement_id) ==
    LET found == {k \in 1..Len(announcements) :
                     announcement_id = Some(announcements[k].id)}
    IN  IF found = {} THEN None
        ELSE Some(announcements[CHOOSE k \in found : \A m \in found : k <= m])

\* tracking_link = f"{base}/track?id={ann['id']}&target={target}".
TrackingLink(id, target) ==
    Url(<<"/track">>, <<"id=">> \o Decimal(id) \o <<"&", "target=">> \o target)

\* POST /announcement.
create_announcement ==
    /\ pc = "serve"
    /\ \E title \in {None, Some(<<>>), Some(<<"T">>)},
          details \in {None, Some(<<"D">>)},
          target \in {None, Some(<<"u">>), Some(<<"u", "&", "v">>)} :
           /\ request' = Request("/announcement", <<>>, NoForm,
                                 [title |-> title, details |-> details,
                                  target |-> target])
           /\ IF Falsy(title) \/ Falsy(details) \/ Falsy(target)
              THEN /\ response' = Status(400)
                   /\ UNCHANGED <<announcements, next_announcement_id>>
              ELSE /\ Len(announcements) < MaxStored
                   /\ LET ann == [id |-> next_announcement_id,
                                  title |-> title[1], details |-> details[1],
                                  target |-> target[1]]
                      IN  /\ announcements' = Append(announcements, ann)
                          /\ next_announcement_id' = next_announcement_id + 1
                          /\ response' = Response(201, Some(ann),
                                             TrackingLink(ann.id, target[1]),
                                             NoUrl)
    /\ UNCHANGED <<event_log, alerts>>
    /\ UNCHANGED analysis
    /\ UNCHANGED threads

\* The query strings of the GET requests: an id or none, followed by a
\* target and a user, by a username, or by nothing; and the query string of
\* the tracking link of a stored announcement.
Parameter(name, value) == IF value = None THEN <<>> ELSE <<<<name>> \o value[1]>>

RECURSIVE JoinQuery(_)
JoinQuery(parts) ==
    IF parts = <<>> THEN <<>>
    ELSE IF Len(parts) = 1 THEN Head(parts)
    ELSE Head(parts) \o <<"&">> \o JoinQuery(Tail(parts))

Queries ==
    {JoinQuery(Parameter("id=", id) \o rest) :
        id \in {None, Some(<<"1">>), Some(<<"x">>)},
        rest \in {<<>>,
                  <<<<"target=", "u", "%26", "v">>, <<"user=", "ann">>>>,
                  <<<<"user=">>, <<"username=", "bob">>>>}}
    \cup {TrackingLink(announcements[k].id, announcements[k].target).query :
              k \in 1..Len(announcements)}

\* GET /track.
track_open ==
    /\ pc = "serve"
    /\ \E query \in Queries :
           LET ann_id == ArgsGet(query, "id=")
               target == ArgsGet(query, "target=")
               user == OrElse(ArgsGet(query, "user="),
                              OrElse(ArgsGet(query, "username="),
                                     Some(Anonymous)))
               announcement_id == IF ann_id = None THEN None
                                  ELSE int(ann_id[1])
               event == [event |-> "opened",
                         announcementId |-> announcement_id,
                         user |-> user[1], target |-> target]
           IN  /\ request' = Request("/track", query, NoForm, NoJson)
               /\ IF ann_id # None /\ int(ann_id[1]) = None
                  THEN /\ response' = Status(400)
                       /\ UNCHANGED <<event_log, alerts>>
                  ELSE /\ Len(event_log) < MaxLogged
                       /\ event_log' = append_event(event_log, event)
                       /\ alerts' = Append(alerts,
                              [event |-> event,
                               announcement |->
                                   FindAnnouncement(announcement_id)])
                       /\ response' = Status(200)
    /\ UNCHANGED <<announcements, next_announcement_id>>
    /\ UNCHANGED analysis
    /\ UNCHANGED threads

\* Mutant of proceed: the redirect is recorded as an open.
proceed_and_track ==
    /\ pc = "serve"
    /\ Len(event_log) < MaxLogged
    /\ \E query \in Queries :
           /\ request' = Request("/proceed", query, NoForm, NoJson)
           /\ response' = Response(302, None, NoUrl, Url(<<"/track">>, query))
           /\ event_log' = append_event(event_log,
                  [event |-> "opened", announcementId |-> None,
                   user |-> Anonymous, target |-> None])
    /\ UNCHANGED <<announcements, next_announcement_id, alerts>>
    /\ UNCHANGED analysis
    /\ UNCHANGED threads

\* GET /proceed: a redirect to /track with the query string of the request.
proceed ==
    /\ pc = "serve"
    /\ \E query \in Queries :
           /\ request' = Request("/proceed", query, NoForm, NoJson)
           /\ response' = Response(302, None, NoUrl, Url(<<"/track">>, query))
    /\ UNCHANGED <<announcements, next_announcement_id, event_log, alerts>>
    /\ UNCHANGED analysis
    /\ UNCHANGED threads

\* Mutant of acknowledge: the event is written before the id is validated.
acknowledge_logging_first ==
    /\ pc = "serve"
    /\ Len(event_log) < MaxLogged
    /\ \E id \in {None, Some(<<>>), Some(<<"1">>), Some(<<"x">>)},
          rest \in {[user |-> None, target |-> None],
                    [user |-> Some(<<"ann">>), target |-> Some(<<"u">>)]} :
        LET form == [announcementId |-> id, user |-> rest.user,
                     target |-> rest.target]
            rejected == ~Falsy(form.announcementId)
                        /\ int(form.announcementId[1]) = None
            announcement_id == IF Falsy(form.announcementId) \/ rejected
                               THEN None
                               ELSE int(form.announcementId[1])
            event == [event |-> "acknowledged",
                      announcementId |-> announcement_id,
                      user |-> OrElse(form.user, Some(Anonymous))[1],
                      target |-> OrElse(form.target, Some(<<>>))]
        IN
           /\ request' = Request("/acknowledge", <<>>, form, NoJson)
           /\ event_log' = append_event(event_log, event)
           /\ IF rejected
              THEN /\ response' = Status(400)
                   /\ UNCHANGED alerts
              ELSE /\ alerts' = Append(alerts,
                          [event |-> event,
                           announcement |-> FindAnnouncement(announcement_id)])
                   /\ response' = Status(200)
    /\ UNCHANGED <<announcements, next_announcement_id>>
    /\ UNCHANGED analysis
    /\ UNCHANGED threads

\* POST /acknowledge.
acknowledge ==
    /\ pc = "serve"
    /\ \E id \in {None, Some(<<>>), Some(<<"1">>), Some(<<"x">>)},
          rest \in {[user |-> None, target |-> None],
                    [user |-> Some(<<"ann">>), target |-> Some(<<"u">>)]} :
        LET form == [announcementId |-> id, user |-> rest.user,
                     target |-> rest.target]
            announcement_id == IF Falsy(form.announcementId) THEN None
                               ELSE int(form.announcementId[1])
            event == [event |-> "acknowledged",
                      announcementId |-> announcement_id,
                      user |-> OrElse(form.user, Some(Anonymous))[1],
                      target |-> OrElse(form.target, Some(<<>>))]
        IN
           /\ request' = Request("/acknowledge", <<>>, form, NoJson)
           /\ IF ~Falsy(form.announcementId) /\ int(form.announcementId[1]) = None
              THEN /\ response' = Status(400)
                   /\ UNCHANGED <<event_log, alerts>>
              ELSE /\ Len(event_log) < MaxLogged
                   /\ event_log' = append_event(event_log, event)
                   /\ alerts' = Append(alerts,
                          [event |-> event,
                           announcement |-> FindAnnouncement(announcement_id)])
                   /\ response' = Status(200)
    /\ UNCHANGED <<announcements, next_announcement_id>>
    /\ UNCHANGED analysis
    /\ UNCHANGED threads

\* The server handles one request after the other.
NextHttp == create_announcement \/ track_open \/ proceed \/ acknowledge

\* The process after start-up, before its first request.
InitHttp ==
    /\ HttpInit
    /\ events = <<>>
    /\ KMeans = FALSE
    /\ pc = "serve"
    /\ i = 1
    /\ user_stats = <<>>
    /\ open_events = <<>>
    /\ outstanding_by_user = <<>>
    /\ profiles = <<>>
    /\ clustering = "untried"
    /\ predicted = <<>>
    /\ analytics = NewAnalytics(<<>>)
    /\ calls = <<>>
    /\ creating = <<>>

SpecHttp == InitHttp /\ [][NextHttp]_vars

---------------------------------------------------------------------------
\* POST /announcement served by several threads (app.run serves each
\* request in a thread of its own). A handler may be suspended between any
\* two of its accesses to the globals: the read of next_announcement_id for
\* ann["id"], the append to announcements, and the read and the write of
\* next_announcement_id += 1. creating[t] holds the locals of handler t.

\* Most handlers of POST /announcement under way at once.
MaxHandlers == 2

\* A handler that waits for a request.
IdleHandler ==
    [pc |-> "idle", json |-> NoJson,
     ann |-> [id |-> 0, title |-> <<>>, details |-> <<>>, target |-> <<>>],
     loaded |-> 0]

\* Lines 420-434: the body is read and checked; a body that passes gives
\* the dict ann, its id read from next_announcement_id.
BuildAnn(t) ==
    /\ pc = "serve"
    /\ creating[t].pc = "idle"
    /\ \E title \in {None, Some(<<"T">>)},
          target \in {Some(<<"u">>), Some(<<"u", "&", "v">>)} :
           LET json == [title |-> title, details |-> Some(<<"D">>),
                        target |-> target]
           IN  IF Falsy(json.title) \/ Falsy(json.details) \/ Falsy(json.target)
               THEN /\ request' = Request("/announcement", <<>>, NoForm, json)
                    /\ response' = Status(400)
                    /\ UNCHANGED creating
               ELSE /\ Len(announcements)
                         + Cardinality({u \in 1..MaxHandlers :
                                            creating[u].pc = "built"})
                         < MaxStored
                    /\ creating' =
                         [creating EXCEPT ![t] =
                            [pc |-> "built", json |-> json,
                             ann |-> [id |-> next_announcement_id,
                                      title |-> title[1],
                                      details |-> json.details[1],
                                      target |-> target[1]],
                             loaded |-> 0]]
                    /\ UNCHANGED <<request, response>>
    /\ UNCHANGED <<announcements, next_announcement_id, event_log, alerts,
                   calls>>
    /\ UNCHANGED analysis

\* Line 435: announcements.append(ann).
AppendAnn(t) ==
    /\ pc = "serve"
    /\ creating[t].pc = "built"
    /\ announcements' = Append(announcements, creating[t].ann)
    /\ creating' = [creating EXCEPT ![t].pc = "appended"]
    /\ UNCHANGED <<next_announcement_id, event_log, alerts, request, response,
                   calls>>
    /\ UNCHANGED analysis

\* Line 436, first half: the value of next_announcement_id is loaded.
LoadNextId(t) ==
    /\ pc = "serve"
    /\ creating[t].pc = "appended"
    /\ creating' = [creating EXCEPT ![t].pc = "loaded",
                                    ![t].loaded = next_announcement_id]
    /\ UNCHANGED <<announcements, next_announcement_id, event_log, alerts,
                   request, response, calls>>
    /\ UNCHANGED analysis

\* Line 436, second half, and lines 438-445: the value loaded plus one is
\* stored, and the handler answers.
StoreNextId(t) ==
    /\ pc = "serve"
    /\ creating[t].pc = "loaded"
    /\ next_announcement_id' = creating[t].loaded + 1
    /\ request' = Request("/announcement", <<>>, NoForm, creating[t].json)
    /\ response' = Response(201, Some(creating[t].ann),
                            TrackingLink(creating[t].ann.id,
                                         creating[t].ann.target),
                            NoUrl)
    /\ creating' = [creating EXCEPT ![t] = IdleHandler]
    /\ UNCHANGED <<announcements, event_log, alerts, calls>>
    /\ UNCHANGED analysis

NextCreating ==
    \E t \in 1..MaxHandlers :
        BuildAnn(t) \/ AppendAnn(t) \/ LoadNextId(t) \/ StoreNextId(t)

\* The process after start-up, its handlers waiting.
InitCreating ==
    /\ HttpInit
    /\ events = <<>>
    /\ KMeans = FALSE
    /\ pc = "serve"
    /\ i = 1
    /\ user_stats = <<>>
    /\ open_events = <<>>
    /\ outstanding_by_user = <<>>
    /\ profiles = <<>>
    /\ clustering = "untried"
    /\ predicted = <<>>
    /\ analytics = NewAnalytics(<<>>)
    /\ calls = <<>>
    /\ creating = [t \in 1..MaxHandlers |-> IdleHandler]

SpecCreating == InitCreating /\ [][NextCreating]_vars

---------------------------------------------------------------------------
\* Inputs.

\* Event records with the given values of each field.
EventsOf(kinds, ids, users, stamps, targets) ==
    [event : kinds, announcementId : ids, user : users,
     timestamp : stamps, target : targets]

\* "...Z" timestamps at every tick.
ZStamps == {Some(IsoString(t * Tick, "Z")) : t \in 0..MaxTime}

UserA == Some(<<"a">>)
UserB == Some(<<"b">>)

\* The call on one of the given logs.
InitOn(logs, kmeans) ==
    /\ events \in logs
    /\ KMeans = kmeans
    /\ pc = "call"
    /\ i = 1
    /\ user_stats = <<>>
    /\ open_events = <<>>
    /\ outstanding_by_user = <<>>
    /\ profiles = <<>>
    /\ clustering = "untried"
    /\ predicted = <<>>
    /\ analytics = NewAnalytics(events)
    /\ HttpInit
    /\ calls = <<>>
    /\ creating = <<>>

\* The call on any log of at most MaxEvents events over EventSet.
InitWith(EventSet, kmeans) == InitOn(BoundedSeq(EventSet, MaxEvents), kmeans)

\* One user and one announcement: opens and acknowledgements at every
\* tick, or with a missing or unparsable timestamp.
PairingEvents ==
    EventsOf({"opened", "acknowledged"}, {Some(1)}, {UserA},
             {None, Some(JunkString)} \cup ZStamps, {None})

Spec == InitWith(PairingEvents, FALSE) /\ [][Next]_vars

\* Two users, one of them anonymous and one written with a trailing blank;
\* every kind of event, with and without a timestamp.
UserEvents ==
    EventsOf({"opened", "acknowledged", "clicked"}, {Some(1)},
             {None, Some(<<"a", " ">>)},
             {None, Some(IsoString(0, "Z"))}, {None})

SpecUsers == InitWith(UserEvents, FALSE) /\ [][Next]_vars

\* One user, events with and without an announcement id, at the first and
\* the last tick.
KeyEvents ==
    EventsOf({"opened", "acknowledged"}, {None, Some(1)}, {UserA},
             {Some(IsoString(0, "Z")), Some(IsoString(MaxTime * Tick, "Z"))},
             {None})

SpecKeys == InitWith(KeyEvents, FALSE) /\ [][Next]_vars

\* Two users; timestamps written with "Z" and without a zone designator.
ZoneEvents ==
    EventsOf({"opened", "acknowledged"}, {Some(1)}, {UserA, UserB},
             {Some(IsoString(0, "Z")), Some(IsoString(0, "")),
              Some(IsoString(MaxTime * Tick, ""))},
             {None})

SpecZones == InitWith(ZoneEvents, FALSE) /\ [][Next]_vars

\* Logs of many users: the k-th user's events follow those of the users
\* before, so the users first appear in the order 1..k.
UserNames == <<"a", "b", "c", "d", "e", "f">>
NthUser(k) == Some(<<UserNames[k]>>)

\* One event of a user: its kind and its timestamp.
Shape(kind, stamp) == [event |-> kind, timestamp |-> stamp]

\* The events of one user with the given kinds and timestamps.
BlockEvents(user, block) ==
    [n \in 1..Len(block) |->
        [event |-> block[n].event, announcementId |-> Some(1), user |-> user,
         timestamp |-> block[n].timestamp, target |-> None]]

\* The logs of exactly k users, each with one of the given blocks.
RECURSIVE LogsOf(_, _)
LogsOf(blocks, k) ==
    IF k = 0 THEN {<<>>}
    ELSE {log \o BlockEvents(NthUser(k), b) : log \in LogsOf(blocks, k - 1),
                                              b \in blocks}

\* The call on a log of at most MaxUsers users, each with one of the blocks.
InitFleet(blocks, kmeans) ==
    InitOn(UNION {LogsOf(blocks, k) : k \in 0..MaxUsers}, kmeans)

\* What one user did: opened and acknowledged at once; opened and
\* acknowledged MaxTime ticks later; opened without acknowledging; opened,
\* or acknowledged, in an event without timestamp; opened twice and
\* acknowledged once.
FirstStamp == Some(IsoString(0, "Z"))
LastStamp == Some(IsoString(MaxTime * Tick, "Z"))
FleetBlocks ==
    {<<Shape("opened", FirstStamp), Shape("acknowledged", FirstStamp)>>,
     <<Shape("opened", FirstStamp), Shape("acknowledged", LastStamp)>>,
     <<Shape("opened", FirstStamp)>>,
     <<Shape("opened", None)>>,
     <<Shape("acknowledged", None)>>,
     <<Shape("opened", FirstStamp), Shape("opened", FirstStamp),
       Shape("acknowledged", LastStamp)>>}

SpecFleet == InitFleet(FleetBlocks, FALSE) /\ [][Next]_vars

\* With the clustering facility: users that opened and acknowledged at once,
\* opened without acknowledging, or opened twice and acknowledged once.
ClusterBlocks ==
    {<<Shape("opened", FirstStamp), Shape("acknowledged", FirstStamp)>>,
     <<Shape("opened", FirstStamp)>>,
     <<Shape("opened", FirstStamp), Shape("opened", FirstStamp),
       Shape("acknowledged", LastStamp)>>}

SpecClusters == InitFleet(ClusterBlocks, TRUE) /\ [][Next]_vars

\* Long logs. What a user with many events did: `opens` opened events
\* followed by `acks` acknowledged events. With a delay given, the first
\* open is stamped T0 and the first acknowledgement that many ticks later,
\* so that the two pair; no other event has a timestamp.
Repeat(x, n) == [k \in 1..n |-> x]

BulkBlock(opens, acks, delay) ==
    LET open_stamp == IF delay = None THEN None ELSE FirstStamp
        ack_stamp == IF delay = None THEN None
                     ELSE Some(IsoString(delay[1] * Tick, "Z"))
    IN  (IF opens = 0 THEN <<>>
         ELSE <<Shape("opened", open_stamp)>>
                  \o Repeat(Shape("opened", None), opens - 1))
        \o (IF acks = 0 THEN <<>>
            ELSE <<Shape("acknowledged", ack_stamp)>>
                     \o Repeat(Shape("acknowledged", None), acks - 1))

\* Logs of two users: the first with up to 117 opens and 76
\* acknowledgements, the second with up to 3 and 2.
RateLogs ==
    {BlockEvents(NthUser(1), BulkBlock(o1, a1, d))
         \o BlockEvents(NthUser(2), BulkBlock(o2, a2, None)) :
        o1 \in {0, 1, 7, 20, 117}, a1 \in {0, 1, 4, 13, 76},
        d \in {None, Some(0), Some(MaxTime)},
        o2 \in {0, 3}, a2 \in {0, 2}}

SpecRates == InitOn(RateLogs, FALSE) /\ [][Next]_vars

\* Two users and two announcements: opens and acknowledgements at the first
\* and the last tick.
QueueEvents ==
    EventsOf({"opened", "acknowledged"}, {Some(1), Some(2)}, {UserA, UserB},
             {FirstStamp, LastStamp}, {None})

SpecQueues == InitWith(QueueEvents, FALSE) /\ [][Next]_vars

\* One user: events of the two kinds and of another, with and without a
\* timestamp and a target.
OtherKindEvents ==
    EventsOf({"opened", "acknowledged", "clicked"}, {Some(1)}, {UserA},
             {None, FirstStamp, LastStamp}, {None, Some("t")})

SpecKinds == InitWith(OtherKindEvents, FALSE) /\ [][Next]_vars

\* Opens and acknowledgements of two announcements at one instant, by users
\* written "a", " a " and "A", by a blank name and without a name.
NameEvents ==
    EventsOf({"opened", "acknowledged"}, {Some(1), Some(2)},
             {None, Some(<<" ">>), Some(<<"a">>), Some(<<" ", "a", " ">>),
              Some(<<"A">>)},
             {FirstStamp}, {None})

SpecNames == InitWith(NameEvents, FALSE) /\ [][Next]_vars

---------------------------------------------------------------------------
\* Two calls of generate_user_analytics on the same list of events, as two
\* requests for the analytics served by two threads. The variables pc, i,
\* user_stats, open_events, outstanding_by_user, profiles, clustering,
\* predicted and
\* analytics are the locals of the call that is running; `calls` holds
\* the locals of the calls that are suspended. The list of events and the
\* KMeans import are the objects the calls share.

\* The locals of the running call.
Locals ==
    [pc |-> pc, i |-> i, user_stats |-> user_stats,
     open_events |-> open_events,
     outstanding_by_user |-> outstanding_by_user, profiles |-> profiles,
     clustering |-> clustering, predicted |-> predicted,
     analytics |-> analytics]

\* The locals of a call on entry.
EnteredCall(evs) ==
    [pc |-> "call", i |-> 1, user_stats |-> <<>>, open_events |-> <<>>,
     outstanding_by_user |-> <<>>, profiles |-> <<>>,
     clustering |-> "untried", predicted |-> <<>>,
     analytics |-> NewAnalytics(evs)]

\* Mutant of Resume: user_stats is one dict of the module, shared by the
\* calls.
ResumeSharingStats(call) ==
    /\ pc' = call.pc
    /\ i' = call.i
    /\ user_stats' = user_stats
    /\ open_events' = call.open_events
    /\ outstanding_by_user' = call.outstanding_by_user
    /\ profiles' = call.profiles
    /\ clustering' = call.clustering
    /\ predicted' = call.predicted
    /\ analytics' = call.analytics

\* A suspended call goes on with its own locals.
Resume(call) ==
    /\ pc' = call.pc
    /\ i' = call.i
    /\ user_stats' = call.user_stats
    /\ open_events' = call.open_events
    /\ outstanding_by_user' = call.outstanding_by_user
    /\ profiles' = call.profiles
    /\ clustering' = call.clustering
    /\ predicted' = call.predicted
    /\ analytics' = call.analytics

\* A thread switch: the running call is suspended and the one suspended
\* longest goes on.
Switch ==
    /\ calls # <<>>
    /\ Resume(Head(calls))
    /\ calls' = Append(Tail(calls), Locals)
    /\ UNCHANGED <<events, KMeans, creating>>
    /\ UNCHANGED http

NextCalls == Next \/ Switch

\* One user: opens and acknowledgements without timestamp, at T0 and at the
\* last tick.
CallEvents ==
    EventsOf({"opened", "acknowledged"}, {Some(1)}, {UserA},
             {None, FirstStamp, LastStamp}, {None})

\* Two calls on one of the logs, the second not yet started.
InitCalls ==
    /\ events \in BoundedSeq(CallEvents, MaxEvents)
    /\ KMeans = FALSE
    /\ pc = "call"
    /\ i = 1
    /\ user_stats = <<>>
    /\ open_events = <<>>
    /\ outstanding_by_user = <<>>
    /\ profiles = <<>>
    /\ clustering = "untried"
    /\ predicted = <<>>
    /\ analytics = NewAnalytics(events)
    /\ calls = <<EnteredCall(events)>>
    /\ creating = <<>>
    /\ HttpInit

SpecCalls == InitCalls /\ [][NextCalls]_vars

---------------------------------------------------------------------------
\* Vocabulary of the properties.

\* The number of events of a kind in a log.
CountKind(evs, kind) ==
    Cardinality({n \in 1..Len(evs) : evs[n].event = kind})

\* A step of the scan that processed events[i] without raising.
Scanned == pc \in {"call", "scan"} /\ pc' = "scan" /\ i' = i + 1

\* The event of that step, its user, timestamp and key's queue.
CurEvent == events[i]
CurUser == normalize_user(CurEvent.user)
CurTimestamp == parse_iso_timestamp(CurEvent.timestamp)
CurQueue == GetOr(open_events, <<CurEvent.announcementId, CurUser>>, <<>>)
CurQueueAfter == GetOr(open_events', <<CurEvent.announcementId, CurUser>>, <<>>)
CurStats == GetOr(user_stats, CurUser, NewStats)
CurStatsAfter == GetOr(user_stats', CurUser, NewStats)

\* Every queue other than the one of <<id, user>> is the same after the step.
OtherQueuesUnchanged(id, user) ==
    \A n \in 1..Len(open_events') :
        open_events'[n].key # <<id, user>> =>
            /\ n <= Len(open_events)
            /\ open_events[n] = open_events'[n]

\* All entries queued, over all keys, in key order.
RECURSIVE QueuedEntries(_)
QueuedEntries(queues) ==
    IF queues = <<>> THEN <<>> ELSE Head(queues).val \o QueuedEntries(Tail(queues))

\* All outstanding sessions, over all users.
RECURSIVE OutstandingSessions(_)
OutstandingSessions(out) ==
    IF out = <<>> THEN <<>> ELSE Head(out).val \o OutstandingSessions(Tail(out))

---------------------------------------------------------------------------
\* C1: when build_user_stats returns, the open_count of all users sum to
\* the number of "opened" events of the log and the ack_count to the number
\* of "acknowledged" events, whatever the timestamps and pairings.
C1_CountsMatchLog ==
    pc = "built" =>
        /\ TotalOpens(user_stats) = CountKind(events, "opened")
        /\ TotalAcks(user_stats) = CountKind(events, "acknowledged")

\* Two users, an open and an acknowledgement that do not pair, and a third
\* event of another kind.
C1_Witness ==
    /\ pc = "built"
    /\ Len(user_stats) = 2
    /\ CountKind(events, "opened") = 1
    /\ CountKind(events, "acknowledged") = 1
    /\ CountKind(events, "clicked") = 1
    /\ AllDelays(user_stats) = <<>>

\* A step on an acknowledged event removes at most one entry, the oldest,
\* from the queue of its own key and leaves the other queues alone.
C2_AckTakesOldest ==
    Scanned /\ CurEvent.event = "acknowledged" =>
        /\ \/ CurQueueAfter = CurQueue
           \/ CurQueue # <<>> /\ CurQueueAfter = Tail(CurQueue)
        /\ OtherQueuesUnchanged(CurEvent.announcementId, CurUser)

\* The log <<open t1, open t2, ack t3>> on one key with t1 < t2 < t3.
C2_IsScenario ==
    /\ Len(events) = 3
    /\ events[1].event = "opened"
    /\ events[2].event = "opened"
    /\ events[3].event = "acknowledged"
    /\ \A n \in 1..3 :
        /\ parse_iso_timestamp(events[n].timestamp) # None
        /\ events[n].announcementId = events[1].announcementId
        /\ normalize_user(events[n].user) = normalize_user(events[1].user)
    /\ parse_iso_timestamp(events[1].timestamp)[1].ts
         < parse_iso_timestamp(events[2].timestamp)[1].ts
    /\ parse_iso_timestamp(events[2].timestamp)[1].ts
         < parse_iso_timestamp(events[3].timestamp)[1].ts

\* That log records the single delay t3 - t1 and leaves the open at t2
\* outstanding.
C2_Scenario ==
    pc = "built" /\ C2_IsScenario =>
        /\ Len(user_stats) = 1
        /\ user_stats[1].val.open_count = 2
        /\ user_stats[1].val.ack_count = 1
        /\ user_stats[1].val.ack_delays =
              <<parse_iso_timestamp(events[3].timestamp)[1].ts
                  - parse_iso_timestamp(events[1].timestamp)[1].ts>>
        /\ OutstandingSessions(outstanding_by_user) =
              <<[announcementId |-> events[2].announcementId,
                 opened_at |-> parse_iso_timestamp(events[2].timestamp)[1],
                 target |-> TargetOf(events[2])]>>

\* C2: pairing is first in, first out per key. Every acknowledged event
\* consumes at most one queued open of its own key, always the oldest; in
\* particular opens at t1 < t2 and one acknowledgement at t3 > t2 on one key
\* record the single delay t3 - t1 and leave the open at t2 outstanding.
C2_FifoPairing == [][C2_AckTakesOldest]_vars /\ [](C2_Scenario)

\* The end of the scan of such a log.
C2_Witness == pc = "built" /\ C2_IsScenario

\* An acknowledged event that finds no open queued for its key.
C3_Unmatched == CurEvent.event = "acknowledged" /\ CurQueue = <<>>

\* An acknowledged event earlier than the oldest open queued for its key.
C3_Early ==
    /\ CurEvent.event = "acknowledged"
    /\ CurTimestamp # None
    /\ CurQueue # <<>>
    /\ CurTimestamp[1].ts < Head(CurQueue).timestamp.ts

\* The step counts the acknowledgement and adds no delay.
C3_CountedWithoutDelay ==
    /\ CurStatsAfter.ack_count = CurStats.ack_count + 1
    /\ CurStatsAfter.open_count = CurStats.open_count
    /\ CurStatsAfter.ack_delays = CurStats.ack_delays

\* C3 (as stated): a step on an acknowledged event that finds no open
\* queued for its key, or whose timestamp is earlier than that of the open
\* queued, increments ack_count, adds no delay and dequeues nothing.
C3_NothingDequeued ==
    [][Scanned /\ (C3_Unmatched \/ C3_Early) =>
          C3_CountedWithoutDelay /\ CurQueueAfter = CurQueue]_vars

\* C3 (amended): such a step increments ack_count and adds no delay; with
\* no open queued nothing is dequeued, but an acknowledgement earlier than
\* the oldest queued open does dequeue that open, which is dropped.
C3_EarlyAckDropsOpen ==
    [][Scanned =>
          /\ C3_Unmatched => C3_CountedWithoutDelay /\ CurQueueAfter = <<>>
          /\ C3_Early =>
                C3_CountedWithoutDelay /\ CurQueueAfter = Tail(CurQueue)]_vars

\* An acknowledgement was processed that is earlier than the open before it.
C3_Witness ==
    /\ pc = "scan"
    /\ i = 3
    /\ events[1].event = "opened"
    /\ events[2].event = "acknowledged"
    /\ parse_iso_timestamp(events[1].timestamp) # None
    /\ parse_iso_timestamp(events[2].timestamp) # None
    /\ parse_iso_timestamp(events[2].timestamp)[1].ts
         < parse_iso_timestamp(events[1].timestamp)[1].ts
    /\ user_stats[1].val.ack_count = 1

\* A log that starts with an open and an acknowledgement of its key with
\* an earlier timestamp, and has no other open.
C4_IsScenario ==
    /\ Len(events) >= 2
    /\ events[1].event = "opened"
    /\ events[2].event = "acknowledged"
    /\ events[2].announcementId = events[1].announcementId
    /\ normalize_user(events[2].user) = normalize_user(events[1].user)
    /\ parse_iso_timestamp(events[1].timestamp) # None
    /\ parse_iso_timestamp(events[2].timestamp) # None
    /\ parse_iso_timestamp(events[2].timestamp)[1].ts
         < parse_iso_timestamp(events[1].timestamp)[1].ts
    /\ \A n \in 3..Len(events) : events[n].event # "opened"

\* C4: an open met by an acknowledgement of its key with an earlier
\* timestamp is removed from the queue and dropped: nothing is queued after
\* the acknowledgement, it is not put back, no delay is recorded and no
\* session is outstanding at the end of the log.
C4_DiscardedOpenIsGone ==
    C4_IsScenario =>
        /\ pc = "scan" /\ i >= 3 =>
              /\ QueuedEntries(open_events) = <<>>
              /\ AllDelays(user_stats) = <<>>
        /\ pc = "built" =>
              /\ outstanding_by_user = <<>>
              /\ AllDelays(user_stats) = <<>>
              /\ TotalOpens(user_stats) = 1

\* The end of the scan of such a log of three events.
C4_Witness == pc = "built" /\ C4_IsScenario /\ Len(events) = 3

\* The queued entries that carry an announcementId.
WithId(entries) == SelectSeq(entries, LAMBDA e : e.announcementId # None)

\* C5 (as stated): a step on an acknowledged event without announcementId
\* is counted but dequeues nothing and records no delay, even when an open
\* without announcementId of the same user is queued.
C5_AbsentIdNeverPairs ==
    [][Scanned /\ CurEvent.event = "acknowledged"
          /\ CurEvent.announcementId = None =>
          /\ CurStatsAfter.ack_count = CurStats.ack_count + 1
          /\ CurStatsAfter.ack_delays = CurStats.ack_delays
          /\ QueuedEntries(open_events') = QueuedEntries(open_events)]_vars

\* C5 (amended): events without announcementId are counted and pair among
\* themselves, the absent id being a key value of its own. A step on an
\* acknowledged event without id never dequeues an open that has an id,
\* and one with an id never dequeues an open without; an acknowledgement
\* without id that finds an open without id of its user queued dequeues
\* the oldest, and records the delay unless it is earlier than that open.
C5_AbsentIdIsAKey ==
    [][Scanned /\ CurEvent.event = "acknowledged" =>
          /\ CurStatsAfter.ack_count = CurStats.ack_count + 1
          /\ IF CurEvent.announcementId = None
             THEN /\ WithId(QueuedEntries(open_events'))
                       = WithId(QueuedEntries(open_events))
                  /\ CurTimestamp # None /\ CurQueue # <<>> =>
                        /\ CurQueueAfter = Tail(CurQueue)
                        /\ Head(CurQueue).announcementId = None
                        /\ CurStatsAfter.ack_delays =
                             IF CurTimestamp[1].ts >= Head(CurQueue).timestamp.ts
                             THEN Append(CurStats.ack_delays,
                                         CurTimestamp[1].ts
                                           - Head(CurQueue).timestamp.ts)
                             ELSE CurStats.ack_delays
             ELSE \A n \in 1..Len(open_events) :
                      open_events[n].key[1] = None =>
                          open_events'[n] = open_events[n]]_vars

\* An open and a later acknowledgement, both without id, were paired while
\* an open with an id stays queued.
C5_Witness ==
    /\ pc = "scan"
    /\ i = 4
    /\ events[1].event = "opened" /\ events[1].announcementId # None
    /\ events[2].event = "opened" /\ events[2].announcementId = None
    /\ events[3].event = "acknowledged" /\ events[3].announcementId = None
    /\ Len(user_stats[1].val.ack_delays) = 1
    /\ Len(QueuedEntries(open_events)) = 1

\* The number of events of a kind with a parsable timestamp.
RECURSIVE CountStamped(_, _)
CountStamped(evs, kind) ==
    IF evs = <<>> THEN 0
    ELSE (IF Head(evs).event = kind
             /\ parse_iso_timestamp(Head(evs).timestamp) # None
          THEN 1 ELSE 0) + CountStamped(Tail(evs), kind)

\* A step on an event without a parsable timestamp counts it by its kind
\* and changes no queue and no delay.
C6_UnstampedStep ==
    Scanned /\ CurTimestamp = None =>
        /\ open_events' = open_events
        /\ CurStatsAfter.ack_delays = CurStats.ack_delays
        /\ CurStatsAfter.open_count =
              CurStats.open_count + (IF CurEvent.event = "opened" THEN 1 ELSE 0)
        /\ CurStatsAfter.ack_count =
              CurStats.ack_count
                + (IF CurEvent.event = "acknowledged" THEN 1 ELSE 0)

\* At most as many sessions are outstanding as the log has opened events
\* with a parsable timestamp, and at most as many delays are recorded as it
\* has acknowledged events with one.
C6_OnlyStampedPair ==
    pc = "built" =>
        /\ Len(OutstandingSessions(outstanding_by_user))
              <= CountStamped(events, "opened")
        /\ Len(AllDelays(user_stats)) <= CountStamped(events, "acknowledged")

\* C6: an event whose timestamp is missing or unparsable is counted by its
\* kind, but such an open is never enqueued (never outstanding, never
\* paired) and such an acknowledgement never dequeues and adds no delay.
C6_UnstampedCountedNotPaired == [][C6_UnstampedStep]_vars /\ [](C6_OnlyStampedPair)

\* An open with an unparsable timestamp, an open with a timestamp and an
\* acknowledgement without timestamp: all counted, one session outstanding.
C6_Witness ==
    /\ pc = "built"
    /\ Len(events) = 3
    /\ events[1].event = "opened" /\ events[1].timestamp = Some(JunkString)
    /\ events[2].event = "opened"
    /\ parse_iso_timestamp(events[2].timestamp) # None
    /\ events[3].event = "acknowledged" /\ events[3].timestamp = None
    /\ user_stats[1].val.open_count = 2
    /\ user_stats[1].val.ack_count = 1
    /\ Len(OutstandingSessions(outstanding_by_user)) = 1

\* C7: every engagement score lies in [0, 1], also for a user with more
\* acknowledgements than opens.
C7_ScoreInUnitInterval ==
    pc \in {"profiled", "done"} =>
        \A n \in 1..Len(profiles) : profiles[n].val.score \in 0..10000

\* C8: generate_user_analytics never ends in an error, whatever the kinds,
\* absent fields and notations of the timestamps.
C8_NeverRaises == pc # "raised"

\* C9: for the empty log the call returns at once, without scanning,
\* profiling or classifying: total_events = 0, total_users = 0, no leaders,
\* no risks, engine "heuristic" and exactly one insight.
C9_EmptyLogReport ==
    events = <<>> =>
        /\ pc \in {"call", "done"}
        /\ i = 1
        /\ user_stats = <<>>
        /\ open_events = <<>>
        /\ outstanding_by_user = <<>>
        /\ profiles = <<>>
        /\ pc = "done" =>
              /\ analytics.overall.total_events = 0
              /\ analytics.overall.total_users = 0
              /\ analytics.overall.conversion_rate = 0
              /\ analytics.overall.avg_ack_minutes = None
              /\ analytics.leaders = <<>>
              /\ analytics.risks = <<>>
              /\ analytics.engine = "heuristic"
              /\ analytics.insights = <<NoEventsInsight>>

\* The call on the empty log has returned.
C9_Witness == events = <<>> /\ pc = "done"

\* A risk candidate with ackRate 0.5, two outstanding sessions and no known
\* average delay.
C10_IsExample(r) ==
    r.ack_rate = 500 /\ r.outstanding = 2 /\ r.avg_delay_minutes = None

\* C10 (as stated): such a candidate has the risk score 0.5 + 0.4 + 1.0 =
\* 1.9.
C10_RiskIs1900 ==
    pc = "done" =>
        \A n \in 1..Len(analytics.risks) :
            C10_IsExample(analytics.risks[n]) =>
                analytics.risks[n].risk_score = 1900

\* C10 (amended): its risk score is 0.5 + 0.4 + 0.125 = 1.025: the unknown
\* delay counts as 90 minutes, which is 0.125 of twelve hours.
C10_RiskIs1025 ==
    pc = "done" =>
        \A n \in 1..Len(analytics.risks) :
            C10_IsExample(analytics.risks[n]) =>
                analytics.risks[n].risk_score = 1025

\* The report lists such a candidate.
C10_Witness ==
    /\ pc = "done"
    /\ \E n \in 1..Len(analytics.risks) : C10_IsExample(analytics.risks[n])

---------------------------------------------------------------------------
\* C11: the risks of the report.

\* The place in the log of the first event of a user (0 without one).
FirstSeen(user) ==
    LET places == {n \in 1..Len(events) : normalize_user(events[n].user) = user}
    IN  IF places = {} THEN 0
        ELSE CHOOSE n \in places : \A m \in places : n <= m

\* Whether acks / opens, taken as 0 without opens, is below 0.6.
RateBelowSixTenths(stats) ==
    stats.open_count = 0 \/ 10 * stats.ack_count < 6 * stats.open_count

\* Whether a user is an entry of the risks.
ListedAtRisk(user) ==
    \E k \in 1..Len(analytics.risks) : analytics.risks[k].user = user

\* Whether a profile has an acknowledgement rate below 0.6 or an outstanding
\* session.
AtRisk(profile) == profile.ack_rate < 600 \/ profile.outstanding >= 1

\* The risk score of a profile.
RiskOf(profile) ==
    RiskScore(profile.ack_rate, profile.outstanding, profile.avg_delay_minutes)

\* C11: the risks list at most 3 users, each once; every listed user has an
\* acknowledgement rate below 0.6 or an outstanding session; the list is in
\* non-increasing order of risk score, entries of equal score in the order
\* their users first appear in the log; and every candidate left out has a
\* lower score than each listed one, or the same score and a later first
\* appearance.
C11_RisksRanked ==
    pc = "done" /\ events # <<>> =>
        LET risks == analytics.risks
        IN  /\ Len(risks) <= 3
            /\ \A j, k \in 1..Len(risks) : j < k =>
                   /\ risks[j].user # risks[k].user
                   /\ risks[j].risk_score >= risks[k].risk_score
                   /\ risks[j].risk_score = risks[k].risk_score =>
                          FirstSeen(risks[j].user) < FirstSeen(risks[k].user)
            /\ \A k \in 1..Len(risks) :
                   /\ HasKey(user_stats, risks[k].user)
                   /\ risks[k].outstanding =
                          Len(GetOr(outstanding_by_user, risks[k].user, <<>>))
                   /\ \/ risks[k].ack_rate < 600
                            /\ RateBelowSixTenths(Get(user_stats, risks[k].user))
                      \/ risks[k].outstanding >= 1
            /\ \A n \in 1..Len(profiles) :
                   AtRisk(profiles[n].val)
                       /\ ~ListedAtRisk(profiles[n].key) =>
                       /\ Len(risks) = 3
                       /\ \A k \in 1..Len(risks) :
                              \/ RiskOf(profiles[n].val) < risks[k].risk_score
                              \/ /\ RiskOf(profiles[n].val) = risks[k].risk_score
                                 /\ FirstSeen(risks[k].user)
                                        < FirstSeen(profiles[n].key)

\* A report of four users: one that is no candidate, and three candidates
\* listed, the last two with equal scores below the first; or four
\* candidates, the one left out with the score of the last one listed.
C11_Witness ==
    /\ pc = "done"
    /\ Len(analytics.risks) = 3
    /\ analytics.risks[1].risk_score > analytics.risks[2].risk_score
    /\ analytics.risks[2].risk_score = analytics.risks[3].risk_score
    /\ \E n \in 1..Len(profiles) :
           /\ AtRisk(profiles[n].val)
           /\ ~ListedAtRisk(profiles[n].key)
           /\ RiskOf(profiles[n].val) = analytics.risks[3].risk_score

---------------------------------------------------------------------------
\* C12, C14: the labels profile_users gives.

\* The users of a dict, in its order.
KeysOf(d) == [n \in 1..Len(d) |-> d[n].key]

\* The label of every profile, in the order of the profiles.
LabelsOf(profs) == [n \in 1..Len(profs) |-> profs[n].val.classification]

\* The labels the heuristic rule gives the users of the scanned log.
HeuristicLabels ==
    LabelsOf(ClassifyHeuristic(
                 UnclassifiedProfiles(user_stats, outstanding_by_user)))

\* C12: after profile_users, under either engine, the profiles are those
\* of the users of the log, one each, and every label is one of "Highly
\* Engaged", "Steady" and "Needs Attention", never the empty string; under
\* the heuristic engine the labels are a function of the log: every run on
\* it gives the labels the rule gives its statistics.
C12_OneLabelEach ==
    pc \in {"profiled", "done"} =>
        /\ KeysOf(profiles) = KeysOf(user_stats)
        /\ \A m, n \in 1..Len(profiles) :
               m # n => profiles[m].key # profiles[n].key
        /\ \A n \in 1..Len(profiles) :
               profiles[n].val.classification
                   \in {"Highly Engaged", "Steady", "Needs Attention"}
        /\ analytics.engine \in {"heuristic", "sklearn-kmeans"}
        /\ analytics.engine = "heuristic" => LabelsOf(profiles) = HeuristicLabels

\* The clustering engine has labelled three or more users, one of them
\* with each tier.
C12_Witness ==
    /\ pc = "profiled"
    /\ Len(profiles) >= 3
    /\ analytics.engine = "sklearn-kmeans"
    /\ \E k, m, n \in 1..Len(profiles) :
           /\ profiles[k].val.classification = "Highly Engaged"
           /\ profiles[m].val.classification = "Steady"
           /\ profiles[n].val.classification = "Needs Attention"

\* C14: when clustering raises, wherever it does, profile_users still
\* returns, the engine reported is "heuristic" and every user has the label
\* of the heuristic rule; the engine is "sklearn-kmeans" only when
\* clustering completed.
C14_FailureFallsBack ==
    /\ pc = "built" => clustering = "untried"
    /\ pc \in {"profiled", "done"} =>
           /\ clustering = "raised" =>
                  /\ analytics.engine = "heuristic"
                  /\ LabelsOf(profiles) = HeuristicLabels
           /\ analytics.engine = "sklearn-kmeans" <=> clustering = "completed"
    /\ pc = "raised" => clustering = "untried"

\* Clustering raised for a log of users to whom the heuristic rule gives
\* different labels.
C14_Witness ==
    /\ pc = "done"
    /\ clustering = "raised"
    /\ Len(profiles) >= 3
    /\ \E m, n \in 1..Len(profiles) :
           /\ profiles[m].val.classification = "Highly Engaged"
           /\ profiles[n].val.classification = "Needs Attention"

---------------------------------------------------------------------------
\* C13: the heuristic rule.

\* Whether acks / opens, taken as 0 without opens, is at least 0.65.
RateAtLeast65(stats) ==
    stats.open_count # 0 /\ 100 * stats.ack_count >= 65 * stats.open_count

\* The label of the rule for a score and the statistics of its user.
RuleLabel(score, stats) ==
    IF score >= 7000 /\ RateAtLeast65(stats) THEN "Highly Engaged"
    ELSE IF score >= 4500 THEN "Steady"
    ELSE "Needs Attention"

\* C13: under the heuristic engine every user's label is "Highly Engaged"
\* if and only if the score is at least 0.7 and ack_count / open_count at
\* least 0.65, otherwise "Steady" if and only if the score is at least
\* 0.45, otherwise "Needs Attention"; so no user with ack_count /
\* open_count below 0.65 is "Highly Engaged".
C13_LabelByTrueRate ==
    pc \in {"profiled", "done"} /\ analytics.engine = "heuristic" =>
        \A n \in 1..Len(profiles) :
            profiles[n].val.classification =
                RuleLabel(profiles[n].val.score,
                          Get(user_stats, profiles[n].key))

---------------------------------------------------------------------------
\* C17: the conversion rate.

\* C17: the conversion rate of the report of a non-empty log is the number
\* of acknowledged events of all users, divided by the number of opened
\* events of all users, in percent, to the nearest tenth: 10 opens and 6
\* acknowledgements give 60.0. It is 0 for a log without opened events,
\* with or without acknowledged ones.
C17_ConversionRate ==
    pc = "done" /\ events # <<>> =>
        LET opens == CountKind(events, "opened")
            acks == CountKind(events, "acknowledged")
            rate == analytics.overall.conversion_rate
        IN  /\ opens = 0 => rate = 0
            /\ opens # 0 =>
                   /\ 2 * (rate * opens - 1000 * acks) <= opens
                   /\ 2 * (1000 * acks - rate * opens) <= opens
            /\ opens = 10 /\ acks = 6 => rate = 600

\* The report of a log with 10 opens and 6 acknowledgements of two users.
C17_Witness ==
    /\ pc = "done"
    /\ Len(user_stats) = 2
    /\ CountKind(events, "opened") = 10
    /\ CountKind(events, "acknowledged") = 6
    /\ analytics.overall.conversion_rate = 600

---------------------------------------------------------------------------
\* C15: the leaders of the report.

\* The users of the log, after normalization.
UsersOfLog == {normalize_user(events[n].user) : n \in 1..Len(events)}

\* Whether a user is an entry of the leaders.
ListedAsLeader(user) ==
    \E k \in 1..Len(analytics.leaders) : analytics.leaders[k].user = user

\* C15: the leaders are min(3, number of users) different users of the
\* log, each with the score of its profile, in non-increasing order of
\* score, users of equal score in the order they first appear in the log;
\* every user left out has a lower score than each leader, or the same
\* score and a later first appearance.
C15_LeadersRanked ==
    pc = "done" /\ events # <<>> =>
        LET leaders == analytics.leaders
        IN  /\ Len(leaders) = Min(3, Cardinality(UsersOfLog))
            /\ \A j, k \in 1..Len(leaders) : j < k =>
                   /\ leaders[j].user # leaders[k].user
                   /\ leaders[j].score >= leaders[k].score
                   /\ leaders[j].score = leaders[k].score =>
                          FirstSeen(leaders[j].user) < FirstSeen(leaders[k].user)
            /\ \A k \in 1..Len(leaders) :
                   /\ leaders[k].user \in UsersOfLog
                   /\ leaders[k].score =
                          calculate_engagement_score(
                              Get(user_stats, leaders[k].user))
            /\ \A n \in 1..Len(profiles) :
                   ~ListedAsLeader(profiles[n].key) =>
                       \A k \in 1..Len(leaders) :
                           \/ profiles[n].val.score < leaders[k].score
                           \/ /\ profiles[n].val.score = leaders[k].score
                              /\ FirstSeen(leaders[k].user)
                                     < FirstSeen(profiles[n].key)

\* A report of four users whose second and third leader have the same
\* score, below that of the first, and whose left-out user has a lower one;
\* the best user is not the first of the log.
C15_Witness ==
    /\ pc = "done"
    /\ Len(profiles) = 4
    /\ analytics.leaders[1].score > analytics.leaders[2].score
    /\ analytics.leaders[2].score = analytics.leaders[3].score
    /\ analytics.leaders[1].user # profiles[1].key
    /\ \E n \in 1..Len(profiles) :
           /\ ~ListedAsLeader(profiles[n].key)
           /\ profiles[n].val.score < analytics.leaders[3].score

---------------------------------------------------------------------------
\* C16: the insights of the report.

\* Whether the insights hold a message with the given text.
HasInsight(text) ==
    \E k \in 1..Len(analytics.insights) : analytics.insights[k].text = text

\* The place of a message in the fixed order of the insights.
InsightRank(text) ==
    CASE text = "pending acknowledgement(s)" -> 1
      [] text = "Overall conversion rate is under 60%" -> 2
      [] text = "Average acknowledgement time exceeds 3 hours" -> 3
      [] OTHER -> 4

\* C16: every report has at least one insight. In the report of a
\* non-empty log the pending message is present exactly when a session is
\* outstanding, the low-conversion message exactly when the conversion rate
\* reported is below 60, the slow message exactly when the average
\* acknowledgement time reported is known and above 180 minutes; they
\* appear once each in that order; and the healthy message is present
\* exactly when none of the three is, and is then the only insight.
C16_InsightsOrdered ==
    pc = "done" =>
        LET insights == analytics.insights
            pending == OutstandingSessions(outstanding_by_user) # <<>>
            low == analytics.overall.conversion_rate < 600
            slow == /\ analytics.overall.avg_ack_minutes # None
                    /\ analytics.overall.avg_ack_minutes[1] > 1800
        IN  /\ Len(insights) >= 1
            /\ events = <<>> => insights = <<NoEventsInsight>>
            /\ events # <<>> =>
                   /\ HasInsight("pending acknowledgement(s)") <=> pending
                   /\ HasInsight("Overall conversion rate is under 60%") <=> low
                   /\ HasInsight("Average acknowledgement time exceeds 3 hours")
                          <=> slow
                   /\ HasInsight("Engagement metrics look healthy")
                          <=> ~(pending \/ low \/ slow)
                   /\ HasInsight("Engagement metrics look healthy")
                          => Len(insights) = 1
                   /\ \A j, k \in 1..Len(insights) : j < k =>
                          InsightRank(insights[j].text)
                              < InsightRank(insights[k].text)

\* A report with the three messages.
C16_Witness ==
    /\ pc = "done"
    /\ Len(analytics.insights) = 3
    /\ analytics.insights[1].text = "pending acknowledgement(s)"
    /\ analytics.insights[2].text = "Overall conversion rate is under 60%"
    /\ analytics.insights[3].text = "Average acknowledgement time exceeds 3 hours"


---------------------------------------------------------------------------
\* C18. The event log under any sequence of requests.

\* The integer a text of decimal digits denotes.
NumberOf(text) == CHOOSE n \in 0..99 : Decimal(n) = text

\* The event a successful GET /track with this query string records: the id
\* parameter as an integer, the user parameter or else the username
\* parameter or else "anonymous", and the target parameter.
OpenedEvent(query) ==
    [event |-> "opened",
     announcementId |-> IF ArgsGet(query, "id=") = None THEN None
                        ELSE Some(NumberOf(ArgsGet(query, "id=")[1])),
     user |-> IF ~Falsy(ArgsGet(query, "user=")) THEN ArgsGet(query, "user=")[1]
              ELSE IF ~Falsy(ArgsGet(query, "username="))
                   THEN ArgsGet(query, "username=")[1]
                   ELSE <<"anonymous">>,
     target |-> ArgsGet(query, "target=")]

\* The event a successful POST /acknowledge with this form records: an
\* empty or missing announcementId is no id, an empty or missing user is
\* "anonymous", an empty or missing target is "".
AcknowledgedEvent(form) ==
    [event |-> "acknowledged",
     announcementId |-> IF Falsy(form.announcementId) THEN None
                        ELSE Some(NumberOf(form.announcementId[1])),
     user |-> IF Falsy(form.user) THEN <<"anonymous">> ELSE form.user[1],
     target |-> IF Falsy(form.target) THEN Some(<<>>) ELSE form.target]

\* C18: a request answered with success by GET /track appends exactly the
\* 'opened' event of its id, user and target at the end of the log, one
\* answered with success by POST /acknowledge appends exactly the
\* 'acknowledged' event of its form, and every other request leaves the log
\* as it was; so the log is the sequence of these events in request order
\* and no earlier entry is changed or removed.
C18_LogInRequestOrder ==
    [][IF request'.route = "/track" /\ response'.status = 200
       THEN event_log' = event_log \o <<OpenedEvent(request'.query)>>
       ELSE IF request'.route = "/acknowledge" /\ response'.status = 200
            THEN event_log' = event_log \o <<AcknowledgedEvent(request'.form)>>
            ELSE event_log' = event_log]_vars

\* An open through the tracking link of announcement 1 by ann was logged
\* and then the acknowledgement of ann, just answered.
C18_Witness ==
    /\ request.route = "/acknowledge"
    /\ response.status = 200
    /\ event_log = <<[event |-> "opened", announcementId |-> Some(1),
                      user |-> <<"ann">>, target |-> Some(<<"u", "&", "v">>)],
                     [event |-> "acknowledged", announcementId |-> Some(1),
                      user |-> <<"ann">>, target |-> Some(<<"u">>)]>>


---------------------------------------------------------------------------
\* C19. The ids of the store and the tracking link of a creation.

\* The stored announcements have the ids 1..n in creation order, and the
\* next id is n + 1.
IdsInCreationOrder ==
    /\ \A k \in 1..Len(announcements) : announcements[k].id = k
    /\ next_announcement_id = Len(announcements) + 1

\* The target a link carries: the value of its target parameter, as any
\* reader of the URL gets it.
TargetOfLink(link) == ArgsGet(link.query, "target=")
IdOfLink(link) == ArgsGet(link.query, "id=")

\* C19: the stored announcements have the pairwise distinct ids 1..n in
\* creation order, the k-th successful POST /announcement getting id k, and
\* the tracking link a successful creation returns is a /track URL whose id
\* parameter is that id and whose target parameter is the announcement's
\* target.
C19_IdsAndTrackingLink ==
    /\ IdsInCreationOrder
    /\ (request.route = "/announcement" /\ response.status = 201) =>
           LET ann == announcements[Len(announcements)]
           IN  /\ response.announcement = Some(ann)
               /\ ann.id = Len(announcements)
               /\ ann.target = request.json.target[1]
               /\ response.track.path = <<"/track">>
               /\ IdOfLink(response.track) = Some(Decimal(ann.id))
               /\ TargetOfLink(response.track) = Some(ann.target)

\* The ids, and the links to targets without "&".
IdsAndPlainLinks ==
    /\ IdsInCreationOrder
    /\ (request.route = "/announcement" /\ response.status = 201) =>
           LET ann == announcements[Len(announcements)]
           IN  /\ response.announcement = Some(ann)
               /\ ann.id = Len(announcements)
               /\ IdOfLink(response.track) = Some(Decimal(ann.id))
               /\ (\A n \in 1..Len(ann.target) : ann.target[n] # "&")
                      => TargetOfLink(response.track) = Some(ann.target)


---------------------------------------------------------------------------
\* C20. The requests that record nothing.

\* The log got one more 'opened' event at its end.
OpenRecorded ==
    /\ Len(event_log') = Len(event_log) + 1
    /\ event_log'[Len(event_log')].event = "opened"

\* C20: a POST /announcement and a GET /proceed leave the event log
\* unchanged; GET /proceed answers with a redirect to /track that carries
\* the query string of the request; and an 'opened' event is recorded only
\* by a request to /track itself.
C20_CreateAndProceedRecordNothing ==
    [][/\ request'.route \in {"/announcement", "/proceed"}
              => event_log' = event_log
       /\ request'.route = "/proceed"
              => /\ response'.status = 302
                 /\ response'.location.path = <<"/track">>
                 /\ response'.location.query = request'.query
       /\ OpenRecorded => request'.route = "/track"]_vars

\* An announcement was created and /proceed was asked with the query of its
\* tracking link: the answer is the redirect and the log is still empty.
C20_Witness ==
    /\ Len(announcements) = 1
    /\ request.route = "/proceed"
    /\ request.query = <<"id=", "1", "&", "target=", "u">>
    /\ response.status = 302
    /\ response.location = Url(<<"/track">>, request.query)
    /\ event_log = <<>>


---------------------------------------------------------------------------
\* C21. Calls on the same log do not interfere.

\* build_user_stats's loop from event n on, run alone.
RECURSIVE ScanAlone(_, _, _, _)
ScanAlone(evs, n, stats_by_user, queues) ==
    IF n > Len(evs) THEN [user_stats |-> stats_by_user, open_events |-> queues]
    ELSE LET step == ScanStep(evs[n], stats_by_user, queues)
         IN  ScanAlone(evs, n + 1, step.user_stats, step.open_events)

\* The report of a single call on evs with the heuristic engine, from entry
\* to return.
ReportAlone(evs) ==
    IF evs = <<>> THEN EmptyReport(NewAnalytics(evs))
    ELSE LET built == ScanAlone(evs, 1, <<>>, <<>>)
             outstanding == DrainAll(built.open_events, 1, <<>>)
             profs == ClassifyHeuristic(
                          UnclassifiedProfiles(built.user_stats, outstanding))
         IN  Report(NewAnalytics(evs), built.user_stats, outstanding, profs)

\* C21: generate_user_analytics changes neither the list of events nor a
\* state shared between calls: of two calls on the same log, run one after
\* the other or interleaved step by step, each returns the report a single
\* call on that log returns (heuristic engine).
C21_CallsDoNotInterfere ==
    /\ [][events' = events]_vars
    /\ [](/\ pc = "done" => analytics = ReportAlone(events)
          /\ \A n \in 1..Len(calls) :
                 calls[n].pc = "done" => calls[n].analytics = ReportAlone(events))

\* Both calls have returned on a log of an open and its acknowledgement
\* and one more open.
C21_Witness ==
    /\ Len(events) = 3
    /\ events[1].event = "opened" /\ events[2].event = "acknowledged"
    /\ events[3].event = "opened" /\ events[3].timestamp # None
    /\ pc = "done"
    /\ Len(calls) = 1 /\ calls[1].pc = "done"
    /\ analytics.overall.total_users = 1
    /\ analytics = calls[1].analytics

\* The calls were interleaved: one has returned while the other is in the
\* middle of its scan.
CallsInterleaved ==
    /\ Len(events) = 3
    /\ pc = "done"
    /\ Len(calls) = 1 /\ calls[1].pc = "scan" /\ calls[1].i = 3


---------------------------------------------------------------------------
\* C22. The delay in the risk score.

\* The risk score, in 1/1000, of a user with the given rate (1/10 percent)
\* and outstanding sessions whose average delay is the fraction avg of
\* seconds: (1 - rate) + 0.2 min(outstanding, 3) + min(hours / 12, 1).
\* The last term is avg.n / (43.2 avg.d) = 5 avg.n / (216 avg.d).
RiskAtDelay(ack_rate, outstanding_tasks, avg) ==
    Round(216 * avg.d * ((1000 - ack_rate) + 200 * Min(outstanding_tasks, 3))
              + Min(5 * avg.n, 216000 * avg.d),
          216 * avg.d)

\* The average delay the risk score is to use: the user's own when there is
\* a paired acknowledgement, 90 minutes when there is none.
KnownDelayOr90(stats) ==
    IF stats.ack_delays # <<>> THEN MeanDelay(stats.ack_delays)
    ELSE [n |-> 90 * 60, d |-> 1]

\* C22: the risk score of a listed user uses the 90-minute default exactly
\* when the user has no paired acknowledgement; a user with a known average
\* delay, an average of 0 minutes included, is scored with that delay.
C22_DefaultOnlyWhenUnknown ==
    pc = "done" =>
        \A n \in 1..Len(analytics.risks) :
            LET r == analytics.risks[n]
            IN  r.risk_score = RiskAtDelay(r.ack_rate, r.outstanding,
                                   KnownDelayOr90(Get(user_stats, r.user)))

\* The same for the users whose average delay is unknown or not 0.
DefaultWhenUnknown ==
    pc = "done" =>
        \A n \in 1..Len(analytics.risks) :
            LET r == analytics.risks[n]
                stats == Get(user_stats, r.user)
            IN  (stats.ack_delays = <<>> \/ SumSeq(stats.ack_delays) # 0) =>
                    r.risk_score = RiskAtDelay(r.ack_rate, r.outstanding,
                                               KnownDelayOr90(stats))


---------------------------------------------------------------------------
\* C23. The outstanding sessions.

\* The session of a queued open of announcement id.
SessionOf(id, entry) ==
    [announcementId |-> id, opened_at |-> entry.timestamp,
     target |-> entry.target]

\* The users with at least one open left in a queue.
UsersWithQueuedOpens(queues) ==
    {queues[n].key[2] : n \in {m \in 1..Len(queues) : queues[m].val # <<>>}}

\* The drain: a step from the end of the scan to the return of
\* build_user_stats. The users with a list are those with an open left; in
\* a user's list the sessions of one announcement are the entries of that
\* key's queue, once each and in queue order; and no list holds a session
\* that is in no queue.
DrainedInOrder ==
    (pc = "scan" /\ pc' = "built") =>
        /\ {outstanding_by_user'[n].key : n \in 1..Len(outstanding_by_user')}
               = UsersWithQueuedOpens(open_events)
        /\ \A n \in 1..Len(open_events) :
               LET id == open_events[n].key[1]
                   user == open_events[n].key[2]
                   queue == open_events[n].val
               IN  SelectSeq(GetOr(outstanding_by_user', user, <<>>),
                             LAMBDA s : s.announcementId = id)
                       = [k \in 1..Len(queue) |-> SessionOf(id, queue[k])]
        /\ Len(OutstandingSessions(outstanding_by_user'))
               = Len(QueuedEntries(open_events))

\* The profiles and the insight: a profile's `outstanding` is the length of
\* its user's list, 0 without one; the pending insight is present when a
\* session is outstanding, and counts the sessions and the users with at
\* least one.
OutstandingReported ==
    /\ pc \in {"profiled", "done"} =>
           \A n \in 1..Len(profiles) :
               profiles[n].val.outstanding =
                   Len(GetOr(outstanding_by_user, profiles[n].key, <<>>))
    /\ (pc = "done" /\ events # <<>>) =>
           LET sessions == Len(OutstandingSessions(outstanding_by_user))
               waiting == {n \in 1..Len(outstanding_by_user) :
                              outstanding_by_user[n].val # <<>>}
               pending == SelectSeq(analytics.insights,
                              LAMBDA x : x.text = "pending acknowledgement(s)")
           IN  IF sessions = 0 THEN pending = <<>>
               ELSE pending = <<[text |-> "pending acknowledgement(s)",
                                 count |-> sessions,
                                 users |-> Cardinality(waiting)]>>

\* C23: after the full scan the outstanding sessions are exactly the
\* entries still queued, each key's remaining opens once each and in
\* enqueue order in the list of the key's user; a profile's `outstanding`
\* is the length of that list; and the pending-acknowledgement insight
\* counts only the users with at least one remaining open.
C23_OutstandingAreQueued == [][DrainedInOrder]_vars /\ [](OutstandingReported)

\* User a opened announcement 1 twice, at the first and at the last tick,
\* user b has no open left: two sessions outstanding, of one user of two.
C23_Witness ==
    /\ pc = "done"
    /\ Len(events) = 3
    /\ Len(user_stats) = 2
    /\ outstanding_by_user =
           <<[key |-> <<"a">>,
              val |-> <<[announcementId |-> Some(1),
                         opened_at |-> [ts |-> 0, aware |-> TRUE],
                         target |-> ""],
                        [announcementId |-> Some(1),
                         opened_at |-> [ts |-> MaxTime * Tick, aware |-> TRUE],
                         target |-> ""]>>]>>
    /\ analytics.insights[1] = [text |-> "pending acknowledgement(s)",
                                count |-> 2, users |-> 1]


---------------------------------------------------------------------------
\* C24. Events of another kind.

\* The step processed an event that is neither an open nor an
\* acknowledgement.
OtherKindScanned == Scanned /\ CurEvent.event \notin {"opened", "acknowledged"}

\* The last-event timestamp after an event with timestamp `stamp`: the
\* later of the two, a missing one not counting.
LaterOf(last, stamp) ==
    IF stamp = None THEN last
    ELSE IF last = None THEN stamp
    ELSE IF stamp[1].ts > last[1].ts THEN stamp ELSE last

\* The step creates its user's record when missing, changes no counter, no
\* delay and no queue and no record of another user, and keeps track of the
\* timestamp and the target of the event.
OtherKindStep ==
    OtherKindScanned =>
        /\ open_events' = open_events
        /\ HasKey(user_stats', CurUser)
        /\ CurStatsAfter.open_count = CurStats.open_count
        /\ CurStatsAfter.ack_count = CurStats.ack_count
        /\ CurStatsAfter.ack_delays = CurStats.ack_delays
        /\ CurStatsAfter.last_event_ts
               = LaterOf(CurStats.last_event_ts, CurTimestamp)
        /\ CurStatsAfter.targets
               = CurStats.targets
                   \cup (IF CurEvent.target = None THEN {} ELSE {CurEvent.target[1]})
        /\ \A n \in 1..Len(user_stats) :
               user_stats[n].key # CurUser => user_stats'[n] = user_stats[n]

\* Every user of the log, whatever the kinds of its events, is counted in
\* total_users and has a profile with a score and a label.
EveryUserProfiled ==
    (pc = "done" /\ events # <<>>) =>
        /\ analytics.overall.total_users = Cardinality(UsersOfLog)
        /\ {profiles[n].key : n \in 1..Len(profiles)} = UsersOfLog
        /\ \A n \in 1..Len(profiles) :
               /\ profiles[n].val.classification
                      \in {SegmentNames[k] : k \in 1..3}
               /\ profiles[n].val.score
                      = calculate_engagement_score(
                            Get(user_stats, profiles[n].key))

\* C24: an event whose kind is neither 'opened' nor 'acknowledged' changes
\* no open_count, ack_count, ack_delays or pairing queue, but updates its
\* user's last-event timestamp and target set and creates the user's stats
\* record, so that the user is counted in total_users, scored and
\* classified.
C24_OtherKindsTracked == [][OtherKindStep]_vars /\ [](EveryUserProfiled)

\* The only event of the log is of another kind, with a timestamp and a
\* target: its user has a record, and is counted and classified.
C24_Witness ==
    /\ pc = "done"
    /\ Len(events) = 1
    /\ events[1].event = "clicked"
    /\ user_stats = <<[key |-> <<"a">>,
                       val |-> [open_count |-> 0, ack_count |-> 0,
                                ack_delays |-> <<>>,
                                last_event_ts |->
                                    Some([ts |-> MaxTime * Tick, aware |-> TRUE]),
                                targets |-> {"t"}]]>>
    /\ analytics.overall.total_users = 1
    /\ profiles[1].val.classification = "Needs Attention"


---------------------------------------------------------------------------
\* C25. Keys and names.

\* The positions of a name that hold no blank.
Inked(name) == {k \in 1..Len(name) : name[k] # " "}

\* The user a name stands for: the name from its first to its last
\* character that is no blank, letter case kept; "anonymous" for an absent
\* name and for one of blanks only.
UserNamed(value) ==
    IF value = None \/ Inked(value[1]) = {} THEN <<"anonymous">>
    ELSE LET first == CHOOSE k \in Inked(value[1]) :
                          \A m \in Inked(value[1]) : k <= m
             last == CHOOSE k \in Inked(value[1]) :
                         \A m \in Inked(value[1]) : k >= m
         IN  SubSeq(value[1], first, last)

\* The events scanned so far.
ScannedEvents == SubSeq(events, 1, i - 1)

\* One stats record per user named in the events scanned, and every queue
\* under the announcement and the user of one of them.
OneRecordPerUser ==
    pc \in {"call", "scan"} =>
        /\ Len(user_stats) =
               Cardinality({UserNamed(ScannedEvents[n].user) :
                                n \in 1..Len(ScannedEvents)})
        /\ \A n \in 1..Len(ScannedEvents) :
               HasKey(user_stats, UserNamed(ScannedEvents[n].user))
        /\ \A n \in 1..Len(open_events) :
               \E m \in 1..Len(ScannedEvents) :
                   open_events[n].key = <<ScannedEvents[m].announcementId,
                                          UserNamed(ScannedEvents[m].user)>>
        /\ \A n, m \in 1..Len(open_events) :
               open_events[n].key = open_events[m].key => n = m

\* A step on an acknowledged event that takes an open out of a queue or
\* records a delay: the open is the oldest of the queue of the event's own
\* announcement and user, it was put there by an opened event of that
\* announcement and user, and no other queue and no other user's record
\* changes.
PairsWithinKey ==
    (Scanned /\ CurEvent.event = "acknowledged"
        /\ (QueuedEntries(open_events') # QueuedEntries(open_events)
               \/ AllDelays(user_stats') # AllDelays(user_stats))) =>
        LET id == CurEvent.announcementId
            user == UserNamed(CurEvent.user)
            queue == GetOr(open_events, <<id, user>>, <<>>)
        IN  /\ queue # <<>>
            /\ GetOr(open_events', <<id, user>>, <<>>) = Tail(queue)
            /\ Head(queue).announcementId = id
            /\ OtherQueuesUnchanged(id, user)
            /\ \E m \in 1..(i - 1) :
                   /\ events[m].event = "opened"
                   /\ events[m].announcementId = id
                   /\ UserNamed(events[m].user) = user
            /\ \A n \in 1..Len(user_stats) :
                   user_stats[n].key # user => user_stats'[n] = user_stats[n]

\* C25: an acknowledged event only ever dequeues an opened event of the
\* same announcementId and the same normalized user. Names that differ only
\* in surrounding blanks share one stats record and one queue, blank and
\* absent names are all "anonymous", and names that differ in letter case
\* are different users.
C25_PairingWithinKey == [][PairsWithinKey]_vars /\ [](OneRecordPerUser)

\* Announcement 1 was opened by " a " and by "A" and acknowledged by "a":
\* the acknowledgement paired with the open of " a ", the open of "A"
\* is still queued, and there are the two users "a" and "A".
C25_Witness ==
    /\ pc = "scan" /\ i = 4
    /\ events[1].event = "opened" /\ events[1].user = Some(<<" ", "a", " ">>)
    /\ events[2].event = "opened" /\ events[2].user = Some(<<"A">>)
    /\ events[3].event = "acknowledged" /\ events[3].user = Some(<<"a">>)
    /\ \A n \in 1..3 : events[n].announcementId = Some(1)
    /\ KeysOf(user_stats) = <<<<"a">>, <<"A">>>>
    /\ Get(user_stats, <<"a">>).ack_delays = <<0>>
    /\ Get(open_events, <<Some(1), <<"a">>>>) = <<>>
    /\ Len(Get(open_events, <<Some(1), <<"A">>>>)) = 1


---------------------------------------------------------------------------
\* C26. The delays, the counts and the queues of a user.

\* The number of opens queued for a user, over the user's keys.
RECURSIVE QueuedFor(_, _)
QueuedFor(queues, user) ==
    IF queues = <<>> THEN 0
    ELSE (IF Head(queues).key[2] = user THEN Len(Head(queues).val) ELSE 0)
           + QueuedFor(Tail(queues), user)

\* C26: after any prefix of the events, for every user, every entry of
\* ack_delays is at least 0, there are at most ack_count entries, and the
\* entries and the user's opens still queued (outstanding, once the queues
\* are drained) together are at most open_count.
C26_DelaysWithinCounts ==
    \A n \in 1..Len(user_stats) :
        LET user == user_stats[n].key
            stats == user_stats[n].val
        IN  /\ \A k \in 1..Len(stats.ack_delays) : stats.ack_delays[k] >= 0
            /\ Len(stats.ack_delays) <= stats.ack_count
            /\ Len(stats.ack_delays) + QueuedFor(open_events, user)
                   + Len(GetOr(outstanding_by_user, user, <<>>))
                   <= stats.open_count

\* User a opened announcement 1 at the first and at the last tick and
\* acknowledged it at the last: one delay, of the first open, and the
\* second open outstanding.
C26_Witness ==
    /\ pc = "built"
    /\ Len(events) = 3
    /\ events[1].event = "opened" /\ events[1].timestamp = FirstStamp
    /\ events[2].event = "opened" /\ events[2].timestamp = LastStamp
    /\ events[3].event = "acknowledged" /\ events[3].timestamp = LastStamp
    /\ \A n \in 1..3 : events[n].user = UserA /\ events[n].announcementId = Some(1)
    /\ Get(user_stats, <<"a">>).ack_delays = <<MaxTime * Tick>>
    /\ Get(user_stats, <<"a">>).open_count = 2
    /\ Len(Get(outstanding_by_user, <<"a">>)) = 1


---------------------------------------------------------------------------
\* C27. The tiers of the clusters.

\* The clusters fit_predict produced, and the members of one.
Clusters == {predicted[n] : n \in 1..Len(predicted)}
Members(c) == {n \in 1..Len(predicted) : predicted[n] = c}

\* The sum of the scores of a set of users.
RECURSIVE ScoreSum(_)
ScoreSum(users) ==
    IF users = {} THEN 0
    ELSE LET n == CHOOSE n \in users : TRUE
         IN  profiles[n].val.score + ScoreSum(users \ {n})

\* Cluster c has a higher average score than cluster d.
HigherAverage(c, d) ==
    ScoreSum(Members(c)) * Cardinality(Members(d))
        > ScoreSum(Members(d)) * Cardinality(Members(c))

\* The tier of a label: 1 for the highest.
TierOf(name) == CHOOSE k \in 1..3 : SegmentNames[k] = name

\* The tier of a cluster, that of any of its members.
TierOfCluster(c) ==
    TierOf(profiles[CHOOSE n \in Members(c) : TRUE].val.classification)

\* C27: when the clustering engine is used, all users of one cluster have
\* the same label; a cluster with the highest average score is "Highly
\* Engaged", and so is the cluster whose average is above all others;
\* of two clusters the one with the strictly higher average has the higher
\* tier; and with k < 3 clusters the tiers are the first k, the lowest
\* not being assigned.
C27_TiersFollowAverages ==
    (pc \in {"profiled", "done"} /\ analytics.engine = "sklearn-kmeans") =>
        /\ Len(predicted) = Len(profiles)
        /\ \A m, n \in 1..Len(profiles) :
               predicted[m] = predicted[n] =>
                   profiles[m].val.classification = profiles[n].val.classification
        /\ \E c \in Clusters :
               /\ TierOfCluster(c) = 1
               /\ \A d \in Clusters : ~HigherAverage(d, c)
        /\ \A c \in Clusters :
               (\A d \in Clusters \ {c} : HigherAverage(c, d)) =>
                   TierOfCluster(c) = 1
        /\ \A c, d \in Clusters :
               HigherAverage(c, d) => TierOfCluster(c) < TierOfCluster(d)
        /\ {TierOfCluster(c) : c \in Clusters} = 1..Cardinality(Clusters)

\* Four users in two clusters: a single user with a high score, and three
\* users whose scores sum to more but average less. The single user is
\* "Highly Engaged", the three are "Steady", nobody is "Needs Attention".
C27_Witness ==
    /\ pc = "done"
    /\ analytics.engine = "sklearn-kmeans"
    /\ Len(profiles) = 4
    /\ Cardinality(Clusters) = 2
    /\ \E c, d \in Clusters :
           /\ Cardinality(Members(c)) = 1
           /\ Cardinality(Members(d)) = 3
           /\ HigherAverage(c, d)
           /\ ScoreSum(Members(d)) > ScoreSum(Members(c))
           /\ TierOfCluster(c) = 1
           /\ TierOfCluster(d) = 2


---------------------------------------------------------------------------
\* C28. When clustering is attempted.

\* C28: with fewer than 3 distinct normalized users in the log, or without
\* the clustering facility, clustering is never attempted and the engine of
\* the report is "heuristic"; the engine is "sklearn-kmeans" only if
\* clustering ran to completion for the whole batch, every user labelled by
\* its cluster.
C28_EngineNeedsThreeUsers ==
    /\ (Cardinality(UsersOfLog) < 3 \/ ~KMeans) =>
           /\ clustering = "untried"
           /\ predicted = <<>>
           /\ analytics.engine = "heuristic"
    /\ analytics.engine = "sklearn-kmeans" =>
           /\ KMeans
           /\ Cardinality(UsersOfLog) >= 3
           /\ clustering = "completed"
           /\ pc \in {"profiled", "done"}
           /\ Len(predicted) = Cardinality(UsersOfLog)
           /\ \A m, n \in 1..Len(profiles) :
                  predicted[m] = predicted[n] =>
                      profiles[m].val.classification
                          = profiles[n].val.classification

\* The facility is there and the log has two users: the report is done
\* with the heuristic engine.
C28_Witness ==
    /\ KMeans
    /\ Cardinality(UsersOfLog) = 2
    /\ pc = "done"
    /\ clustering = "untried"
    /\ analytics.engine = "heuristic"
    /\ profiles[1].val.classification = "Highly Engaged"
    /\ profiles[2].val.classification = "Needs Attention"


---------------------------------------------------------------------------
\* C29. Announcements created concurrently.

\* No handler of POST /announcement is under way.
AllHandlersIdle == \A t \in 1..Len(creating) : creating[t].pc = "idle"

\* C29: when POST /announcement requests are handled concurrently, their
\* reads of next_announcement_id, appends and increments interleaved, every
\* stored announcement has an id different from all others, and once the
\* requests are answered the counter is the number of announcements plus
\* one.
C29_IdsDistinctUnderConcurrency ==
    /\ \A m, n \in 1..Len(announcements) :
           m # n => announcements[m].id # announcements[n].id
    /\ AllHandlersIdle => next_announcement_id = Len(announcements) + 1


---------------------------------------------------------------------------
\* C30. Rejected requests.

\* A required field of the JSON body is absent or empty.
MissingField(json) ==
    Falsy(json.title) \/ Falsy(json.details) \/ Falsy(json.target)

\* A text that is given and is no decimal numeral.
NonInteger(s) == s # <<>> /\ \E n \in 1..Len(s) : \A k \in 1..10 : Digits[k] # s[n]

\* The request carries an announcement id that is not an integer: the id
\* parameter of GET /track, the announcementId field of POST /acknowledge.
NonIntegerId(req) ==
    \/ /\ req.route = "/track"
       /\ ArgsGet(req.query, "id=") # None
       /\ NonInteger(ArgsGet(req.query, "id=")[1])
    \/ /\ req.route = "/acknowledge"
       /\ req.form.announcementId # None
       /\ NonInteger(req.form.announcementId[1])

\* The request is one the handlers reject.
Rejected(req) ==
    \/ req.route = "/announcement" /\ MissingField(req.json)
    \/ NonIntegerId(req)

\* C30: a rejected request changes no state. A POST /announcement with a
\* missing title, details or target is answered 400 and stores no
\* announcement and consumes no id; a GET /track or POST /acknowledge with
\* an announcement id that is not an integer is answered 400 and appends
\* no event and sends no notification. No answer of 400 changes the store,
\* the counter, the log or the notifications.
C30_RejectedChangesNothing ==
    [][/\ Rejected(request') => response'.status = 400
       /\ response'.status = 400 =>
              /\ Rejected(request')
              /\ UNCHANGED <<announcements, next_announcement_id, event_log,
                             alerts>>]_vars

\* An acknowledgement with the id "x" was rejected when an announcement was
\* stored and an event logged and notified.
C30_Witness ==
    /\ request.route = "/acknowledge"
    /\ request.form.announcementId = Some(<<"x">>)
    /\ response.status = 400
    /\ Len(announcements) = 1
    /\ Len(event_log) = 1
    /\ Len(alerts) = 1
    /\ next_announcement_id = 2

===========================================================================
